---- MODULE Spec2Model ----
(***************************************************************************)
(* Customer health scoring and recovery playbooks: the scoring functions,  *)
(* the trigger engine and the playbook/action lifecycle of                 *)
(* health_scoring_system.py (CustomerSuccessEngine and its collaborators). *)
(*                                                                         *)
(* Numbers: the program computes in floating point.  Here every score and  *)
(* every signal is a fixed-point integer, the real value times Scale, and  *)
(* a division rounds down to the next 1/Scale.  datetime.now() is kept to   *)
(* the calendar day where the program reads it back (the playbook id) and  *)
(* to "set" in completion_date; outcome_summary keeps the improvement in   *)
(* tenths, None for ""; fields the program writes and never reads (titles, *)
(* descriptions, due dates, owners, objectives, calculated_at,             *)
(* triggered_at, last_engagement) are left out.                            *)
(***************************************************************************)
EXTENDS Integers, Sequences, FiniteSets, TLC

(***************************************************************************)
(* Fixed point                                                             *)
(***************************************************************************)
Scale == 1000

Min(a, b) == IF a <= b THEN a ELSE b
Max(a, b) == IF a >= b THEN a ELSE b

\* x / y for two fixed-point numbers, y # 0
FDiv(x, y) == IF y > 0 THEN (x * Scale) \div y ELSE -((x * Scale) \div (-y))

\* dict.get(key, default)
Get(customer_data, key, default) ==
    IF key \in DOMAIN customer_data THEN customer_data[key] ELSE default

(***************************************************************************)
(* HealthScoreCalculator                                                   *)
(***************************************************************************)
calculate_engagement_score(customer_data) ==
    LET login_frequency == Get(customer_data, "logins_per_week", 0)
        login_score == Min(30 * Scale, (login_frequency * 30) \div 5)
        features_used == Get(customer_data, "features_used", 0)
        total_features == Get(customer_data, "total_available_features", 10 * Scale)
        adoption_rate == IF total_features > 0
                         THEN FDiv(features_used, total_features) ELSE 0
        adoption_score == adoption_rate * 25
        support_satisfaction == Get(customer_data, "support_satisfaction", 3 * Scale)
        support_score == ((support_satisfaction - Scale) * 20) \div 4
        office_hours_attendance == Get(customer_data, "office_hours_attendance_rate", 0)
        help_usage == Get(customer_data, "help_articles_viewed", 0)
        help_score == Min(10 * Scale, (help_usage * 10) \div 10)
        score == login_score + adoption_score + support_score
                 + office_hours_attendance * 15 + help_score
    IN  Min(100 * Scale, score)

\* the one division of the calculators whose divisor is not guarded:
\* (days_to_first_value - target_days) / target_days raises ZeroDivisionError
calculate_value_realization_score_raises(customer_data) ==
    Get(customer_data, "target_days_to_value", 30 * Scale) = 0

calculate_value_realization_score(customer_data) ==
    LET goals_achieved == Get(customer_data, "goals_achieved", 0)
        total_goals == Get(customer_data, "total_goals_set", 1 * Scale)
        goal_rate == IF total_goals > 0 THEN FDiv(goals_achieved, total_goals) ELSE 0
        actual_roi == Get(customer_data, "measured_roi", 0)
        expected_roi == Get(customer_data, "expected_roi", 1 * Scale)
        roi_achievement == IF expected_roi > 0
                           THEN Min(Scale, FDiv(actual_roi, expected_roi)) ELSE 0
        outcomes_tracked == Get(customer_data, "business_outcomes_achieved", 0)
        days_to_first_value == Get(customer_data, "days_to_first_value", 365 * Scale)
        target_days == Get(customer_data, "target_days_to_value", 30 * Scale)
        time_score == Max(0, 10 * Scale
                             - FDiv(days_to_first_value - target_days, target_days) * 10)
        score == goal_rate * 40 + roi_achievement * 30
                 + Min(20 * Scale, outcomes_tracked * 5) + Max(0, time_score)
    IN  Min(100 * Scale, score)

calculate_relationship_health_score(customer_data) ==
    LET nps_score == Get(customer_data, "nps_score", 0)
        csat_score == Get(customer_data, "csat_score", 3 * Scale)
        nps_normalized == (nps_score + 100 * Scale) \div 2
        nps_contribution == (nps_normalized * 20) \div 100
        csat_normalized == ((csat_score - Scale) * 100) \div 4
        csat_contribution == (csat_normalized * 15) \div 100
        trust_score == Get(customer_data, "trust_index", 5 * Scale)
        trust_contribution == ((trust_score - Scale) * 25) \div 9
        stakeholder_engagement == Get(customer_data, "stakeholder_engagement_rate", Scale \div 2)
        response_time_hours == Get(customer_data, "avg_response_time_hours", 48 * Scale)
        target_response_hours == 24 * Scale
        responsiveness == Max(0, Scale - FDiv(response_time_hours - target_response_hours,
                                              target_response_hours))
        score == nps_contribution + csat_contribution + trust_contribution
                 + stakeholder_engagement * 25 + responsiveness * 15
    IN  Min(100 * Scale, score)

calculate_risk_indicators_score(customer_data) ==
    LET contract_risk_level == Get(customer_data, "contract_risk_level", 0)
        payment_delays == Get(customer_data, "payment_delays_count", 0)
        payment_risk == Min(Scale, payment_delays \div 3)
        competitive_activity == Get(customer_data, "competitive_evaluation", 0)
        usage_trend == Get(customer_data, "usage_trend_30d", 0)
        escalations == Get(customer_data, "support_escalations_30d", 0)
        escalation_risk == Min(Scale, escalations \div 3)
        key_contact_turnover == Get(customer_data, "key_contact_changes_90d", 0)
        turnover_risk == Min(Scale, key_contact_turnover \div 2)
        score == (contract_risk_level * 25) \div 5
                 + payment_risk * 20
                 + (IF competitive_activity # 0 THEN 20 * Scale ELSE 0)
                 + (IF usage_trend < -(Scale \div 5) THEN 15 * Scale
                    ELSE IF usage_trend < -(Scale \div 10) THEN 10 * Scale ELSE 0)
                 + escalation_risk * 10
                 + turnover_risk * 10
    IN  Min(100 * Scale, score)

\* weight_adjustments, applied post_incident first, then enterprise, then min(100, .)
calculate_health_metrics(customer, customer_data) ==
    LET engagement == calculate_engagement_score(customer_data)
        value_realization == calculate_value_realization_score(customer_data)
        relationship == calculate_relationship_health_score(customer_data)
        risk_indicators == calculate_risk_indicators_score(customer_data)
        relationship1 == IF customer.is_post_incident
                         THEN (relationship * 15) \div 10 ELSE relationship
        risk1 == IF customer.is_post_incident
                 THEN (risk_indicators * 13) \div 10 ELSE risk_indicators
        value1 == IF customer.segment = "enterprise"
                  THEN (value_realization * 12) \div 10 ELSE value_realization
        relationship2 == IF customer.segment = "enterprise"
                         THEN (relationship1 * 11) \div 10 ELSE relationship1
    IN  [engagement_score |-> Min(100 * Scale, engagement),
         value_realization_score |-> Min(100 * Scale, value1),
         relationship_health_score |-> Min(100 * Scale, relationship2),
         risk_indicators_score |-> Min(100 * Scale, risk1)]

(***************************************************************************)
(* HealthMetrics                                                           *)
(***************************************************************************)
\* faulty variant: the weighted sum, not clamped
calculate_composite_score_unclamped(m) ==
    (m.engagement_score * 35 + m.value_realization_score * 30
     + m.relationship_health_score * 25
     + (100 * Scale - m.risk_indicators_score) * 10) \div 100

calculate_composite_score(m) ==
    LET risk_contribution == (100 * Scale - m.risk_indicators_score) * 10
        composite == (m.engagement_score * 35
                      + m.value_realization_score * 30
                      + m.relationship_health_score * 25
                      + risk_contribution) \div 100
    IN  Min(100 * Scale, Max(0, composite))

\* faulty variant: a boundary value belongs to the lower tier
get_health_tier_strict(m) ==
    LET score == calculate_composite_score(m)
    IN  IF score > 80 * Scale THEN "healthy"
        ELSE IF score > 60 * Scale THEN "at_risk"
        ELSE IF score > 40 * Scale THEN "critical"
        ELSE "red_alert"

get_health_tier(m) ==
    LET score == calculate_composite_score(m)
    IN  IF score >= 80 * Scale THEN "healthy"
        ELSE IF score >= 60 * Scale THEN "at_risk"
        ELSE IF score >= 40 * Scale THEN "critical"
        ELSE "red_alert"

(***************************************************************************)
(* Signal bags the caller supplies.  The first three are the bags of       *)
(* demonstrate_health_scoring_system; empty_data leaves every signal to    *)
(* its default; zero_target_data sets the unguarded divisor to zero.       *)
(***************************************************************************)
S(units, thousandths) == units * Scale + thousandths

enterprise_data ==
    [logins_per_week |-> S(3, 0), features_used |-> S(6, 0),
     total_available_features |-> S(15, 0), support_satisfaction |-> S(2, 500),
     office_hours_attendance_rate |-> S(0, 800), help_articles_viewed |-> S(12, 0),
     goals_achieved |-> S(2, 0), total_goals_set |-> S(5, 0),
     measured_roi |-> S(1, 200), expected_roi |-> S(2, 0),
     business_outcomes_achieved |-> S(3, 0), days_to_first_value |-> S(45, 0),
     target_days_to_value |-> S(30, 0), nps_score |-> -S(20, 0),
     csat_score |-> S(2, 800), trust_index |-> S(3, 500),
     stakeholder_engagement_rate |-> S(0, 600), avg_response_time_hours |-> S(36, 0),
     contract_risk_level |-> S(3, 0), payment_delays_count |-> 0,
     competitive_evaluation |-> 1, usage_trend_30d |-> -S(0, 150),
     support_escalations_30d |-> S(2, 0), key_contact_changes_90d |-> S(1, 0)]

business_data ==
    [logins_per_week |-> S(4, 0), features_used |-> S(8, 0),
     total_available_features |-> S(12, 0), support_satisfaction |-> S(3, 500),
     office_hours_attendance_rate |-> S(0, 400), help_articles_viewed |-> S(5, 0),
     goals_achieved |-> S(3, 0), total_goals_set |-> S(4, 0),
     measured_roi |-> S(1, 800), expected_roi |-> S(1, 500),
     business_outcomes_achieved |-> S(2, 0), days_to_first_value |-> S(25, 0),
     target_days_to_value |-> S(30, 0), nps_score |-> S(10, 0),
     csat_score |-> S(3, 800), trust_index |-> S(6, 500),
     stakeholder_engagement_rate |-> S(0, 700), avg_response_time_hours |-> S(18, 0),
     contract_risk_level |-> S(1, 0), payment_delays_count |-> 0,
     competitive_evaluation |-> 0, usage_trend_30d |-> S(0, 50),
     support_escalations_30d |-> 0, key_contact_changes_90d |-> 0]

\* enterprise_data.copy() then update({...})
improved_enterprise_data ==
    [support_satisfaction |-> S(4, 0), nps_score |-> S(20, 0), trust_index |-> S(7, 0),
     contract_risk_level |-> S(1, 0), competitive_evaluation |-> 0,
     usage_trend_30d |-> S(0, 100)] @@ enterprise_data

\* signals whose engagement score is exactly 60: 30 (logins) + 20 (support) + 10 (help)
engagement_60_data ==
    [logins_per_week |-> S(5, 0), support_satisfaction |-> S(5, 0),
     help_articles_viewed |-> S(10, 0)]

empty_data == [k \in {} |-> 0]

zero_target_data == [target_days_to_value |-> 0] @@ business_data

\* signals outside their documented scales and on the guarded divisors
SignalKeys ==
    {"logins_per_week", "features_used", "total_available_features",
     "support_satisfaction", "office_hours_attendance_rate", "help_articles_viewed",
     "goals_achieved", "total_goals_set", "measured_roi", "expected_roi",
     "business_outcomes_achieved", "days_to_first_value", "target_days_to_value",
     "nps_score", "csat_score", "trust_index", "stakeholder_engagement_rate",
     "avg_response_time_hours", "contract_risk_level", "payment_delays_count",
     "competitive_evaluation", "usage_trend_30d", "support_escalations_30d",
     "key_contact_changes_90d"}
negative_data == [k \in SignalKeys |-> IF k = "competitive_evaluation" THEN 0 ELSE -S(10, 0)]
large_data == [k \in SignalKeys |-> S(1000, 0)]
large_low_risk_data == [contract_risk_level |-> -S(20, 0)] @@ large_data
zero_denominators_data ==
    [total_available_features |-> 0, total_goals_set |-> 0, expected_roi |-> 0] @@ business_data
negative_target_data == [target_days_to_value |-> -S(30, 0)] @@ business_data

(***************************************************************************)
(* Optional values: None is the empty sequence, a value v is <<v>>.        *)
(***************************************************************************)
None == <<>>
Some(v) == <<v>>
IsNone(o) == o = <<>>
Val(o) == o[1]

(***************************************************************************)
(* Bounds of the explored behaviours                                       *)
(***************************************************************************)
\* update_customer_health calls explored per registered customer
MaxHistory == 2
\* calendar days 0 .. MaxDay
MaxDay == 1
\* steps explored in one behaviour: calls of the writing entry points, failed
\* ones included, and days passing
MaxSteps == 6
\* of these, successful update_playbook_action calls other than the plain completion
\* (COMPLETED, "", None) of a playbook's actions in template order
MaxOtherWrites == 1

(***************************************************************************)
(* Enumerations and the caller's inputs                                    *)
(***************************************************************************)
HealthTier == {"healthy", "at_risk", "critical", "red_alert"}
PlaybookType == {"post_incident_recovery", "engagement_revival", "value_acceleration",
                 "churn_prevention", "trust_rebuilding"}
ActionStatus == {"pending", "in_progress", "completed", "skipped"}

\* CustomerProfile objects as the caller constructs them: enterprise_customer and
\* business_customer of the demonstration
DemoCustomers ==
    {[customer_id |-> "CUST-001", segment |-> "enterprise",
      is_post_incident |-> TRUE, trust_rebuilding_required |-> TRUE],
     [customer_id |-> "CUST-002", segment |-> "business",
      is_post_incident |-> TRUE, trust_rebuilding_required |-> FALSE]}

\* customer ids a caller passes: the registered ones and one that never is
CustomerIds == {"CUST-001", "CUST-002", "CUST-404"}

SignalBags == {enterprise_data, business_data, empty_data, zero_target_data}

\* the bags of the scoring behaviours: the above and the out-of-range ones
ExtremeBags ==
    SignalBags \cup {negative_data, large_data, large_low_risk_data,
                     zero_denominators_data, negative_target_data, engagement_60_data}

\* profiles of the scoring behaviours: every segment and is_post_incident
ScoreProfiles ==
    {[customer_id |-> "CUST-001", segment |-> seg,
      is_post_incident |-> post, trust_rebuilding_required |-> FALSE] :
        seg \in {"enterprise", "business"}, post \in BOOLEAN}

Days == 0 .. MaxDay

\* (status, outcome_notes, success_metrics) of an update_playbook_action call:
\* each status with the defaults, and the call of the demonstration
NoMetrics == [k \in {} |-> ""]
UpdateInputs ==
    {[status |-> st, outcome_notes |-> "", success_metrics |-> NoMetrics] : st \in ActionStatus}
    \cup {[status |-> "completed", outcome_notes |-> "completed successfully",
           success_metrics |-> [completion_quality |-> "high"]]}

(***************************************************************************)
(* PlaybookLibrary                                                         *)
(***************************************************************************)
PlaybookAction(action_id, success_metrics) ==
    [action_id |-> action_id, status |-> "pending", completion_date |-> None,
     outcome_notes |-> "", success_metrics |-> success_metrics,
     \* no template of the library names a dependency, and the engine reads none
     dependencies |-> {}]

RecoveryPlaybook(playbook_id, playbook_type, customer_id, triggered_by, actions) ==
    [playbook_id |-> playbook_id, playbook_type |-> playbook_type,
     customer_id |-> customer_id, triggered_by |-> triggered_by, actions |-> actions,
     status |-> "active", completion_percentage |-> 0,
     baseline_health_score |-> None, current_health_score |-> None,
     outcome_summary |-> None]

\* f"PIR-{customer.customer_id}-{datetime.now().strftime('%Y%m%d')}"
PlaybookId(prefix, customer_id, day) == <<prefix, customer_id, day>>

create_post_incident_recovery_playbook(customer_id, day) ==
    RecoveryPlaybook(PlaybookId("PIR", customer_id, day), "post_incident_recovery",
        customer_id, "incident_impact",
        <<PlaybookAction("pir_001", [call_completed |-> "False", trust_score_impact |-> "0"]),
          PlaybookAction("pir_002", [post_mortem_shared |-> "False",
                                     customer_feedback_received |-> "False"]),
          PlaybookAction("pir_003", [sessions_completed |-> "0",
                                     trust_score_improvement |-> "0"]),
          PlaybookAction("pir_004", [monitoring_implemented |-> "False",
                                     customer_dashboard_access |-> "False"]),
          PlaybookAction("pir_005", [value_demonstration_completed |-> "False",
                                     roi_improvement_shown |-> "False"])>>)

create_engagement_revival_playbook(customer_id, day) ==
    RecoveryPlaybook(PlaybookId("ER", customer_id, day), "engagement_revival",
        customer_id, "low_engagement_score",
        <<PlaybookAction("er_001", [analysis_completed |-> "False", barriers_identified |-> "0"]),
          PlaybookAction("er_002", [training_sessions_delivered |-> "0",
                                    feature_adoption_increase |-> "0"]),
          PlaybookAction("er_003", [champions_identified |-> "0",
                                    champion_training_completed |-> "False"]),
          PlaybookAction("er_004", [integrations_optimized |-> "0",
                                    new_integrations_implemented |-> "0"])>>)

ActionIds == {"pir_001", "pir_002", "pir_003", "pir_004", "pir_005",
              "er_001", "er_002", "er_003", "er_004"}

(***************************************************************************)
(* CustomerSuccessEngine: state                                            *)
(***************************************************************************)
VARIABLES
    customers,          \* self.customers: customer_id -> CustomerProfile
    active_playbooks,   \* self.active_playbooks: playbook_id -> RecoveryPlaybook
    today,              \* the calendar day datetime.now() falls on
    steps,              \* writing calls made and days passed so far
    other_writes,       \* action updates other than in-order plain completions
    outcome,            \* the last call: its name and the error it raised
    calls,              \* update_customer_health calls of concurrent callers in flight
    value_engine        \* the ValueAmplificationEngine: its three registries

vars == <<customers, active_playbooks, today, steps, other_writes, outcome, calls,
          value_engine>>

\* CustomerProfile(...) with the dataclass defaults of the mutable fields
CustomerProfile(profile) ==
    [segment |-> profile.segment,
     is_post_incident |-> profile.is_post_incident,
     trust_rebuilding_required |-> profile.trust_rebuilding_required,
     executive_escalation_required |-> FALSE,
     current_health |-> None,
     health_history |-> <<>>]

Outcome(op, error) == [op |-> op, error |-> error]

\* ValueAmplificationEngine.__init__: the registries, all empty (the
\* defaultdicts have a key once it was indexed)
ValueAmplificationEngine ==
    [customers_roi_metrics |-> [c \in {} |-> 0],
     customer_milestones |-> [c \in {} |-> 0],
     advocacy_profiles |-> [c \in {} |-> 0]]

Init ==
    /\ customers = [c \in {} |-> 0]
    /\ active_playbooks = [p \in {} |-> 0]
    /\ today = 0
    /\ steps = 0
    /\ other_writes = 0
    /\ outcome = Outcome("__init__", "none")
    /\ calls = <<>>
    /\ value_engine = ValueAmplificationEngine

(***************************************************************************)
(* Trigger engine                                                          *)
(***************************************************************************)
\* faulty variant: looks for a Completed playbook instead of an Active one
_has_active_playbook_completed(playbooks, customer_id, playbook_type) ==
    \E id \in DOMAIN playbooks :
        /\ playbooks[id].customer_id = customer_id
        /\ playbooks[id].playbook_type = playbook_type
        /\ playbooks[id].status = "completed"

\* faulty variant: a playbook of any status holds the guard
_has_active_playbook_any_status(playbooks, customer_id, playbook_type) ==
    \E id \in DOMAIN playbooks :
        /\ playbooks[id].customer_id = customer_id
        /\ playbooks[id].playbook_type = playbook_type

_has_active_playbook(playbooks, customer_id, playbook_type) ==
    \E id \in DOMAIN playbooks :
        /\ playbooks[id].customer_id = customer_id
        /\ playbooks[id].playbook_type = playbook_type
        /\ playbooks[id].status = "active"

\* faulty variant: churn prevention is given a playbook of its own
_trigger_playbook_churn(playbooks, customer, customer_id, playbook_type, day) ==
    IF playbook_type \notin {"post_incident_recovery", "engagement_revival", "churn_prevention"}
    THEN playbooks
    ELSE LET template == IF playbook_type = "post_incident_recovery"
                         THEN create_post_incident_recovery_playbook(customer_id, day)
                         ELSE IF playbook_type = "engagement_revival"
                         THEN create_engagement_revival_playbook(customer_id, day)
                         ELSE [create_engagement_revival_playbook(customer_id, day)
                                  EXCEPT !.playbook_id = PlaybookId("CP", customer_id, day),
                                         !.playbook_type = "churn_prevention"]
             playbook == IF ~IsNone(customer.current_health)
                         THEN [template EXCEPT !.baseline_health_score =
                                   Some(calculate_composite_score(Val(customer.current_health)))]
                         ELSE template
         IN  (playbook.playbook_id :> playbook) @@ playbooks

\* faulty variant: a kind without a template falls through to the engagement
\* template
_trigger_playbook_fallthrough(playbooks, customer, customer_id, playbook_type, day) ==
    LET template == IF playbook_type = "post_incident_recovery"
                    THEN create_post_incident_recovery_playbook(customer_id, day)
                    ELSE [create_engagement_revival_playbook(customer_id, day)
                             EXCEPT !.playbook_type = playbook_type]
        playbook == IF ~IsNone(customer.current_health)
                    THEN [template EXCEPT !.baseline_health_score =
                              Some(calculate_composite_score(Val(customer.current_health)))]
                    ELSE template
    IN  (playbook.playbook_id :> playbook) @@ playbooks

\* returns the registry after the call; customer is the profile as it is when
\* the trigger runs (current_health already the new metrics)
_trigger_playbook(playbooks, customer, customer_id, playbook_type, day) ==
    IF playbook_type \notin {"post_incident_recovery", "engagement_revival"}
    THEN playbooks          \* "not implemented yet": warning, return
    ELSE LET template == IF playbook_type = "post_incident_recovery"
                         THEN create_post_incident_recovery_playbook(customer_id, day)
                         ELSE create_engagement_revival_playbook(customer_id, day)
             playbook == IF ~IsNone(customer.current_health)
                         THEN [template EXCEPT !.baseline_health_score =
                                   Some(calculate_composite_score(Val(customer.current_health)))]
                         ELSE template
         IN  (playbook.playbook_id :> playbook) @@ playbooks

_escalate_to_executive(customer) ==
    [customer EXCEPT !.executive_escalation_required = TRUE]

\* faulty variant: a drop of exactly 15 escalates too
_check_playbook_triggers_drop15(playbooks, customer, customer_id, previous_health, new_health, day) ==
    LET pb1 == IF /\ customer.is_post_incident /\ customer.trust_rebuilding_required
                  /\ ~_has_active_playbook(playbooks, customer_id, "post_incident_recovery")
               THEN _trigger_playbook(playbooks, customer, customer_id,
                                      "post_incident_recovery", day)
               ELSE playbooks
        pb3 == IF /\ new_health.engagement_score < 60 * Scale
                  /\ ~_has_active_playbook(pb1, customer_id, "engagement_revival")
               THEN _trigger_playbook(pb1, customer, customer_id, "engagement_revival", day)
               ELSE pb1
        escalate == /\ ~IsNone(previous_health)
                    /\ calculate_composite_score(new_health)
                         <= calculate_composite_score(Val(previous_health)) - 15 * Scale
    IN  [active_playbooks |-> pb3,
         customer |-> IF escalate THEN _escalate_to_executive(customer) ELSE customer,
         escalated |-> escalate]

\* faulty variant: the engagement rule fires at 60 too
_check_playbook_triggers_le60(playbooks, customer, customer_id, previous_health, new_health, day) ==
    LET pb1 == IF /\ customer.is_post_incident /\ customer.trust_rebuilding_required
                  /\ ~_has_active_playbook(playbooks, customer_id, "post_incident_recovery")
               THEN _trigger_playbook(playbooks, customer, customer_id,
                                      "post_incident_recovery", day)
               ELSE playbooks
        pb3 == IF /\ new_health.engagement_score <= 60 * Scale
                  /\ ~_has_active_playbook(pb1, customer_id, "engagement_revival")
               THEN _trigger_playbook(pb1, customer, customer_id, "engagement_revival", day)
               ELSE pb1
        escalate == /\ ~IsNone(previous_health)
                    /\ calculate_composite_score(new_health)
                         < calculate_composite_score(Val(previous_health)) - 15 * Scale
    IN  [active_playbooks |-> pb3,
         customer |-> IF escalate THEN _escalate_to_executive(customer) ELSE customer,
         escalated |-> escalate]

\* self.triggers: the table set up by __init__; _check_playbook_triggers
\* never reads it
triggers ==
    [critical |-> {"post_incident_recovery", "churn_prevention"},
     red_alert |-> {"post_incident_recovery", "churn_prevention"},
     low_engagement |-> {"engagement_revival"},
     low_value_realization |-> {"value_acceleration"}]

\* faulty variant: a Critical or RedAlert tier triggers what self.triggers lists
_check_playbook_triggers_by_table(playbooks, customer, customer_id, previous_health, new_health, day) ==
    LET current_tier == get_health_tier(new_health)
        listed == IF current_tier \in {"critical", "red_alert"}
                  THEN triggers[current_tier] ELSE {}
        pb1 == IF /\ \/ customer.is_post_incident /\ customer.trust_rebuilding_required
                     \/ "post_incident_recovery" \in listed
                  /\ ~_has_active_playbook(playbooks, customer_id, "post_incident_recovery")
               THEN _trigger_playbook(playbooks, customer, customer_id,
                                      "post_incident_recovery", day)
               ELSE playbooks
        pb3 == IF /\ new_health.engagement_score < 60 * Scale
                  /\ ~_has_active_playbook(pb1, customer_id, "engagement_revival")
               THEN _trigger_playbook(pb1, customer, customer_id, "engagement_revival", day)
               ELSE pb1
        escalate == /\ ~IsNone(previous_health)
                    /\ calculate_composite_score(new_health)
                         < calculate_composite_score(Val(previous_health)) - 15 * Scale
    IN  [active_playbooks |-> pb3,
         customer |-> IF escalate THEN _escalate_to_executive(customer) ELSE customer,
         escalated |-> escalate]

\* faulty variant: an update without a qualifying drop clears the escalation flag
_check_playbook_triggers_clearing(playbooks, customer, customer_id, previous_health, new_health, day) ==
    LET pb1 == IF /\ customer.is_post_incident /\ customer.trust_rebuilding_required
                  /\ ~_has_active_playbook(playbooks, customer_id, "post_incident_recovery")
               THEN _trigger_playbook(playbooks, customer, customer_id,
                                      "post_incident_recovery", day)
               ELSE playbooks
        pb3 == IF /\ new_health.engagement_score < 60 * Scale
                  /\ ~_has_active_playbook(pb1, customer_id, "engagement_revival")
               THEN _trigger_playbook(pb1, customer, customer_id, "engagement_revival", day)
               ELSE pb1
        escalate == /\ ~IsNone(previous_health)
                    /\ calculate_composite_score(new_health)
                         < calculate_composite_score(Val(previous_health)) - 15 * Scale
    IN  [active_playbooks |-> pb3,
         customer |-> [customer EXCEPT !.executive_escalation_required = escalate],
         escalated |-> escalate]

\* faulty variant: the post-incident rule without its "no Active playbook" guard
_check_playbook_triggers_pir_unguarded(playbooks, customer, customer_id, previous_health, new_health, day) ==
    LET pb1 == IF customer.is_post_incident /\ customer.trust_rebuilding_required
               THEN _trigger_playbook(playbooks, customer, customer_id,
                                      "post_incident_recovery", day)
               ELSE playbooks
        pb3 == IF /\ new_health.engagement_score < 60 * Scale
                  /\ ~_has_active_playbook(pb1, customer_id, "engagement_revival")
               THEN _trigger_playbook(pb1, customer, customer_id, "engagement_revival", day)
               ELSE pb1
        escalate == /\ ~IsNone(previous_health)
                    /\ calculate_composite_score(new_health)
                         < calculate_composite_score(Val(previous_health)) - 15 * Scale
    IN  [active_playbooks |-> pb3,
         customer |-> IF escalate THEN _escalate_to_executive(customer) ELSE customer,
         escalated |-> escalate]

\* faulty variant: the engagement rule without its "no Active playbook" guard
_check_playbook_triggers_unguarded(playbooks, customer, customer_id, previous_health, new_health, day) ==
    LET pb1 == IF /\ customer.is_post_incident /\ customer.trust_rebuilding_required
                  /\ ~_has_active_playbook(playbooks, customer_id, "post_incident_recovery")
               THEN _trigger_playbook(playbooks, customer, customer_id,
                                      "post_incident_recovery", day)
               ELSE playbooks
        pb3 == IF new_health.engagement_score < 60 * Scale
               THEN _trigger_playbook(pb1, customer, customer_id, "engagement_revival", day)
               ELSE pb1
        escalate == /\ ~IsNone(previous_health)
                    /\ calculate_composite_score(new_health)
                         < calculate_composite_score(Val(previous_health)) - 15 * Scale
    IN  [active_playbooks |-> pb3,
         customer |-> IF escalate THEN _escalate_to_executive(customer) ELSE customer,
         escalated |-> escalate]

\* returns [active_playbooks, customer] after the five rules, in their order, and
\* whether _escalate_to_executive was called
_check_playbook_triggers(playbooks, customer, customer_id, previous_health, new_health, day) ==
    LET current_tier == get_health_tier(new_health)
        pb1 == IF /\ customer.is_post_incident /\ customer.trust_rebuilding_required
                  /\ ~_has_active_playbook(playbooks, customer_id, "post_incident_recovery")
               THEN _trigger_playbook(playbooks, customer, customer_id,
                                      "post_incident_recovery", day)
               ELSE playbooks
        pb2 == IF /\ current_tier \in {"critical", "red_alert"}
                  /\ ~_has_active_playbook(pb1, customer_id, "churn_prevention")
               THEN _trigger_playbook(pb1, customer, customer_id, "churn_prevention", day)
               ELSE pb1
        pb3 == IF /\ new_health.engagement_score < 60 * Scale
                  /\ ~_has_active_playbook(pb2, customer_id, "engagement_revival")
               THEN _trigger_playbook(pb2, customer, customer_id, "engagement_revival", day)
               ELSE pb2
        pb4 == IF /\ new_health.value_realization_score < 50 * Scale
                  /\ ~_has_active_playbook(pb3, customer_id, "value_acceleration")
               THEN _trigger_playbook(pb3, customer, customer_id, "value_acceleration", day)
               ELSE pb3
        escalate == /\ ~IsNone(previous_health)
                    /\ calculate_composite_score(new_health)
                         < calculate_composite_score(Val(previous_health)) - 15 * Scale
    IN  [active_playbooks |-> pb4,
         customer |-> IF escalate THEN _escalate_to_executive(customer) ELSE customer,
         escalated |-> escalate]

\* a call's result: the two registries after it, the error raised, the return value
Result(cs, pbs, error, ret) ==
    [customers |-> cs, active_playbooks |-> pbs, error |-> error, ret |-> ret]

\* the handlers are functions of the registries (cs: self.customers,
\* pbs: self.active_playbooks) and of the call's arguments
add_customer(cs, pbs, customer) ==
    Result((customer.customer_id :> CustomerProfile(customer)) @@ cs, pbs, "none", None)

\* faulty variant: the new metrics are put at the front of health_history
update_customer_health_prepend(cs, pbs, customer_id, customer_data, day) ==
    IF customer_id \notin DOMAIN cs
    THEN Result(cs, pbs, "ValueError", None)
    ELSE IF calculate_value_realization_score_raises(customer_data)
    THEN Result(cs, pbs, "ZeroDivisionError", None)
    ELSE LET customer == cs[customer_id]
             new_health == calculate_health_metrics(customer, customer_data)
             previous_health == customer.current_health
             updated == [customer EXCEPT !.current_health = Some(new_health),
                                         !.health_history = <<new_health>> \o @]
             r == _check_playbook_triggers(pbs, updated, customer_id,
                                           previous_health, new_health, day)
         IN  Result([cs EXCEPT ![customer_id] = r.customer],
                    r.active_playbooks, "none", Some(new_health))

\* faulty variant: an unregistered id is registered with a default profile
update_customer_health_autoregister(cs, pbs, customer_id, customer_data, day) ==
    IF customer_id \notin DOMAIN cs
    THEN Result((customer_id :> CustomerProfile([segment |-> "business",
                                                 is_post_incident |-> FALSE,
                                                 trust_rebuilding_required |-> FALSE])) @@ cs,
                pbs, "none", None)
    ELSE IF calculate_value_realization_score_raises(customer_data)
    THEN Result(cs, pbs, "ZeroDivisionError", None)
    ELSE LET customer == cs[customer_id]
             new_health == calculate_health_metrics(customer, customer_data)
             previous_health == customer.current_health
             updated == [customer EXCEPT !.current_health = Some(new_health),
                                         !.health_history = Append(@, new_health)]
             r == _check_playbook_triggers(pbs, updated, customer_id,
                                           previous_health, new_health, day)
         IN  Result([cs EXCEPT ![customer_id] = r.customer],
                    r.active_playbooks, "none", Some(new_health))

\* faulty variant: the trigger rules run before the new metrics are stored
update_customer_health_late_store(cs, pbs, customer_id, customer_data, day) ==
    IF customer_id \notin DOMAIN cs
    THEN Result(cs, pbs, "ValueError", None)
    ELSE IF calculate_value_realization_score_raises(customer_data)
    THEN Result(cs, pbs, "ZeroDivisionError", None)
    ELSE LET customer == cs[customer_id]
             new_health == calculate_health_metrics(customer, customer_data)
             previous_health == customer.current_health
             r == _check_playbook_triggers(pbs, customer, customer_id,
                                           previous_health, new_health, day)
             updated == [r.customer EXCEPT !.current_health = Some(new_health),
                                           !.health_history = Append(@, new_health)]
         IN  Result([cs EXCEPT ![customer_id] = updated],
                    r.active_playbooks, "none", Some(new_health))

update_customer_health(cs, pbs, customer_id, customer_data, day) ==
    IF customer_id \notin DOMAIN cs
    THEN Result(cs, pbs, "ValueError", None)
    ELSE IF calculate_value_realization_score_raises(customer_data)
    THEN Result(cs, pbs, "ZeroDivisionError", None)
    ELSE LET customer == cs[customer_id]
             new_health == calculate_health_metrics(customer, customer_data)
             previous_health == customer.current_health
             updated == [customer EXCEPT !.current_health = Some(new_health),
                                         !.health_history = Append(@, new_health)]
             r == _check_playbook_triggers(pbs, updated, customer_id,
                                           previous_health, new_health, day)
         IN  Result([cs EXCEPT ![customer_id] = r.customer],
                    r.active_playbooks, "none", Some(new_health))

(***************************************************************************)
(* The assignment notification as a step that can fail.  _trigger_playbook *)
(* calls _notify_playbook_assignment after the registry insert and nothing *)
(* on the way up to update_customer_health catches an exception: failing   *)
(* is the set of playbook types whose notification raises.                 *)
(***************************************************************************)
_notify_playbook_assignment(playbook_type, failing) ==
    IF playbook_type \in failing THEN "NotificationError" ELSE "none"

_check_playbook_triggers_notified(playbooks, customer, customer_id, previous_health, new_health, day, failing) ==
    LET fire1 == /\ customer.is_post_incident /\ customer.trust_rebuilding_required
                 /\ ~_has_active_playbook(playbooks, customer_id, "post_incident_recovery")
        pb1 == IF fire1
               THEN _trigger_playbook(playbooks, customer, customer_id,
                                      "post_incident_recovery", day)
               ELSE playbooks
        error1 == IF fire1 THEN _notify_playbook_assignment("post_incident_recovery", failing)
                  ELSE "none"
        \* churn_prevention and value_acceleration return before the notification
        fire3 == /\ new_health.engagement_score < 60 * Scale
                 /\ ~_has_active_playbook(pb1, customer_id, "engagement_revival")
        pb3 == IF fire3
               THEN _trigger_playbook(pb1, customer, customer_id, "engagement_revival", day)
               ELSE pb1
        error3 == IF fire3 THEN _notify_playbook_assignment("engagement_revival", failing)
                  ELSE "none"
        escalate == /\ ~IsNone(previous_health)
                    /\ calculate_composite_score(new_health)
                         < calculate_composite_score(Val(previous_health)) - 15 * Scale
    IN  IF error1 # "none"
        THEN [active_playbooks |-> pb1, customer |-> customer,
              escalated |-> FALSE, error |-> error1]
        ELSE IF error3 # "none"
        THEN [active_playbooks |-> pb3, customer |-> customer,
              escalated |-> FALSE, error |-> error3]
        ELSE [active_playbooks |-> pb3,
              customer |-> IF escalate THEN _escalate_to_executive(customer) ELSE customer,
              escalated |-> escalate, error |-> "none"]

update_customer_health_notified(cs, pbs, customer_id, customer_data, day, failing) ==
    IF customer_id \notin DOMAIN cs
    THEN Result(cs, pbs, "ValueError", None)
    ELSE IF calculate_value_realization_score_raises(customer_data)
    THEN Result(cs, pbs, "ZeroDivisionError", None)
    ELSE LET customer == cs[customer_id]
             new_health == calculate_health_metrics(customer, customer_data)
             previous_health == customer.current_health
             updated == [customer EXCEPT !.current_health = Some(new_health),
                                         !.health_history = Append(@, new_health)]
             r == _check_playbook_triggers_notified(pbs, updated, customer_id,
                                                    previous_health, new_health, day, failing)
         IN  Result([cs EXCEPT ![customer_id] = r.customer], r.active_playbooks, r.error,
                    IF r.error = "none" THEN Some(new_health) ELSE None)

(***************************************************************************)
(* Playbook/action lifecycle                                               *)
(***************************************************************************)
\* f"{improvement:.1f}": the improvement to one decimal, in tenths of a point
Format1f(x) == (x + Scale \div 20) \div (Scale \div 10)

\* faulty variant: the outcome is captured but the status is left as it is
_complete_playbook_keeps_status(cs, playbook) ==
    IF /\ playbook.customer_id \in DOMAIN cs
       /\ ~IsNone(cs[playbook.customer_id].current_health)
    THEN [playbook EXCEPT !.current_health_score =
              Some(calculate_composite_score(Val(cs[playbook.customer_id].current_health)))]
    ELSE playbook

_complete_playbook(cs, playbook) ==
    LET completed == [playbook EXCEPT !.status = "completed"]
    IN  IF /\ playbook.customer_id \in DOMAIN cs
           /\ ~IsNone(cs[playbook.customer_id].current_health)
        THEN LET current == calculate_composite_score(
                                Val(cs[playbook.customer_id].current_health))
                 scored == [completed EXCEPT !.current_health_score = Some(current)]
             IN  \* "if playbook.baseline_health_score:" is false for None and for 0.0
                 IF /\ ~IsNone(playbook.baseline_health_score)
                    /\ Val(playbook.baseline_health_score) # 0
                 THEN [scored EXCEPT !.outcome_summary =
                          Some(Format1f(current - Val(playbook.baseline_health_score)))]
                 ELSE scored
        ELSE completed

\* next(a for a in playbook.actions if a.action_id == action_id): its index, 0 if none
ActionIndex(playbook, action_id) ==
    LET hits == {i \in 1 .. Len(playbook.actions) : playbook.actions[i].action_id = action_id}
    IN  IF hits = {} THEN 0 ELSE CHOOSE i \in hits : \A j \in hits : i <= j

\* faulty variant: counts every action that has left Pending
CompletedActions_started(playbook) ==
    Cardinality({i \in 1 .. Len(playbook.actions) : playbook.actions[i].status # "pending"})

\* faulty variant: a skipped action counts as done
CompletedActions_skipped(playbook) ==
    Cardinality({i \in 1 .. Len(playbook.actions) :
                    playbook.actions[i].status \in {"completed", "skipped"}})

\* sum(1 for a in playbook.actions if a.status == ActionStatus.COMPLETED)
CompletedActions(playbook) ==
    Cardinality({i \in 1 .. Len(playbook.actions) : playbook.actions[i].status = "completed"})

\* (completed_actions / len(playbook.actions)) * 100
CompletionPercentage(playbook) ==
    FDiv(CompletedActions(playbook) * Scale, Len(playbook.actions) * Scale) * 100

\* faulty variant: an unknown action_id falls back to the playbook's first action
update_playbook_action_first(cs, pbs, playbook_id, action_id, input) ==
    IF playbook_id \notin DOMAIN pbs
    THEN Result(cs, pbs, "ValueError", None)
    ELSE LET playbook == pbs[playbook_id]
             i == Max(1, ActionIndex(playbook, action_id))
             action == playbook.actions[i]
             updated == [action EXCEPT
                            !.status = input.status,
                            !.outcome_notes = input.outcome_notes,
                            !.completion_date = IF input.status = "completed"
                                                THEN Some("now") ELSE @,
                            !.success_metrics = input.success_metrics @@ @]
             written == [playbook EXCEPT !.actions[i] = updated]
             counted == [written EXCEPT !.completion_percentage = CompletionPercentage(written)]
             final == IF counted.completion_percentage = 100 * Scale
                      THEN _complete_playbook(cs, counted)
                      ELSE counted
         IN  Result(cs, [pbs EXCEPT ![playbook_id] = final], "none", None)

\* faulty variant: the percentage is computed before the status is written
update_playbook_action_stale(cs, pbs, playbook_id, action_id, input) ==
    IF playbook_id \notin DOMAIN pbs
    THEN Result(cs, pbs, "ValueError", None)
    ELSE IF ActionIndex(pbs[playbook_id], action_id) = 0
    THEN Result(cs, pbs, "ValueError", None)
    ELSE LET playbook == pbs[playbook_id]
             i == ActionIndex(playbook, action_id)
             action == playbook.actions[i]
             updated == [action EXCEPT
                            !.status = input.status,
                            !.outcome_notes = input.outcome_notes,
                            !.completion_date = IF input.status = "completed"
                                                THEN Some("now") ELSE @,
                            !.success_metrics = input.success_metrics @@ @]
             written == [playbook EXCEPT !.actions[i] = updated]
             counted == [written EXCEPT !.completion_percentage = CompletionPercentage(playbook)]
             final == IF counted.completion_percentage = 100 * Scale
                      THEN _complete_playbook(cs, counted)
                      ELSE counted
         IN  Result(cs, [pbs EXCEPT ![playbook_id] = final], "none", None)

\* faulty variant: an action is only written once its predecessors are completed
update_playbook_action_ordered(cs, pbs, playbook_id, action_id, input) ==
    IF playbook_id \notin DOMAIN pbs
    THEN Result(cs, pbs, "ValueError", None)
    ELSE IF ActionIndex(pbs[playbook_id], action_id) = 0
    THEN Result(cs, pbs, "ValueError", None)
    ELSE IF \E j \in 1 .. ActionIndex(pbs[playbook_id], action_id) - 1 :
                pbs[playbook_id].actions[j].status # "completed"
    THEN Result(cs, pbs, "ValueError", None)
    ELSE LET playbook == pbs[playbook_id]
             i == ActionIndex(playbook, action_id)
             action == playbook.actions[i]
             updated == [action EXCEPT
                            !.status = input.status,
                            !.outcome_notes = input.outcome_notes,
                            !.completion_date = IF input.status = "completed"
                                                THEN Some("now") ELSE @,
                            !.success_metrics = input.success_metrics @@ @]
             written == [playbook EXCEPT !.actions[i] = updated]
             counted == [written EXCEPT !.completion_percentage = CompletionPercentage(written)]
             final == IF counted.completion_percentage = 100 * Scale
                      THEN _complete_playbook(cs, counted)
                      ELSE counted
         IN  Result(cs, [pbs EXCEPT ![playbook_id] = final], "none", None)

update_playbook_action(cs, pbs, playbook_id, action_id, input) ==
    IF playbook_id \notin DOMAIN pbs
    THEN Result(cs, pbs, "ValueError", None)
    ELSE IF ActionIndex(pbs[playbook_id], action_id) = 0
    THEN Result(cs, pbs, "ValueError", None)
    ELSE LET playbook == pbs[playbook_id]
             i == ActionIndex(playbook, action_id)
             action == playbook.actions[i]
             updated == [action EXCEPT
                            !.status = input.status,
                            !.outcome_notes = input.outcome_notes,
                            \* datetime.now(): only that it is set is kept
                            !.completion_date = IF input.status = "completed"
                                                THEN Some("now") ELSE @,
                            \* success_metrics.update(...): given keys win
                            !.success_metrics = input.success_metrics @@ @]
             written == [playbook EXCEPT !.actions[i] = updated]
             counted == [written EXCEPT !.completion_percentage = CompletionPercentage(written)]
             final == IF counted.completion_percentage = 100 * Scale
                      THEN _complete_playbook(cs, counted)
                      ELSE counted
         IN  Result(cs, [pbs EXCEPT ![playbook_id] = final], "none", None)

(***************************************************************************)
(* Reporting                                                               *)
(***************************************************************************)
\* faulty variant: looking up an unregistered customer_id registers it
generate_recovery_report_registering(cs, pbs, customer_id) ==
    LET known == IsNone(customer_id) \/ Val(customer_id) \in DOMAIN cs
        scope == IF IsNone(customer_id) THEN DOMAIN cs ELSE {Val(customer_id)}
        after == IF known THEN cs
                 ELSE (Val(customer_id) :> CustomerProfile([segment |-> "business",
                                                            is_post_incident |-> FALSE,
                                                            trust_rebuilding_required |-> FALSE]))
                      @@ cs
    IN  Result(after, pbs, "none",
               Some([total_customers |-> Cardinality(scope),
                     active_playbooks |->
                         Cardinality({id \in DOMAIN pbs : pbs[id].status = "active"})]))

\* sum(f[x] for x in keys)
RECURSIVE SumOver(_, _)
SumOver(f, keys) ==
    IF keys = {} THEN 0
    ELSE LET x == CHOOSE y \in keys : TRUE IN f[x] + SumOver(f, keys \ {x})

\* round(x, 2)
Round2(x) == ((x + Scale \div 200) \div (Scale \div 100)) * (Scale \div 100)

\* "if x" for an Optional[float]: false for None and for 0.0
Truthy(o) == ~IsNone(o) /\ Val(o) # 0

_calculate_playbook_effectiveness(pbs) ==
    LET relevant(t) == {id \in DOMAIN pbs : pbs[id].playbook_type = t}
        completed(t) == {id \in relevant(t) : pbs[id].status = "completed"}
        successful(t) ==
            {id \in completed(t) :
                /\ Truthy(pbs[id].current_health_score)
                /\ Truthy(pbs[id].baseline_health_score)
                /\ Val(pbs[id].current_health_score) > Val(pbs[id].baseline_health_score)}
    IN  [t \in {u \in PlaybookType : relevant(u) # {}} |->
            [total_triggered |-> Cardinality(relevant(t)),
             completed |-> Cardinality(completed(t)),
             successful |-> Cardinality(successful(t)),
             success_rate |-> IF completed(t) # {}
                              THEN (Cardinality(successful(t)) * Scale)
                                       \div Cardinality(completed(t))
                              ELSE 0,
             avg_completion_percentage |->
                 SumOver([id \in relevant(t) |-> pbs[id].completion_percentage], relevant(t))
                     \div Cardinality(relevant(t))]]

\* customer_id: None or Some(id).  The report, without its timestamp; it reads
\* self.customers and self.active_playbooks and assigns to neither
generate_recovery_report(cs, pbs, customer_id) ==
    LET scope == IF ~IsNone(customer_id)
                 THEN (IF Val(customer_id) \in DOMAIN cs THEN {Val(customer_id)} ELSE {})
                 ELSE DOMAIN cs
        scored == {c \in scope : ~IsNone(cs[c].current_health)}
        improved == {c \in scored : /\ cs[c].is_post_incident
                                    /\ Len(cs[c].health_history) >= 2}
        health_improvements ==
            [c \in improved |->
                calculate_composite_score(Val(cs[c].current_health))
                  - calculate_composite_score(cs[c].health_history[1])]
        avg_health_improvement ==
            IF improved # {}
            THEN SumOver(health_improvements, improved) \div Cardinality(improved)
            ELSE 0
        report ==
            [total_customers |-> Cardinality(scope),
             post_incident_customers |->
                 Cardinality({c \in scored : cs[c].is_post_incident}),
             health_distribution |->
                 [tier \in HealthTier |->
                     Cardinality({c \in scored :
                                     get_health_tier(Val(cs[c].current_health)) = tier})],
             active_playbooks |->
                 Cardinality({id \in DOMAIN pbs : pbs[id].status = "active"}),
             recovery_metrics |->
                 [average_health_improvement |-> Round2(avg_health_improvement),
                  customers_with_improvement |->
                      Cardinality({c \in improved : health_improvements[c] > 0}),
                  customers_with_decline |->
                      Cardinality({c \in improved : health_improvements[c] < 0}),
                  significant_improvements |->
                      Cardinality({c \in improved : health_improvements[c] >= 15 * Scale})],
             playbook_effectiveness |-> _calculate_playbook_effectiveness(pbs)]
    IN  Result(cs, pbs, "none", Some(report))

\* the caller's own write of playbook.status ("paused", "cancelled"): the engine
\* has no operation for it
set_playbook_status(pbs, playbook_id, status) ==
    [pbs EXCEPT ![playbook_id].status = status]

(***************************************************************************)
(* The calls a caller can make, and the passing of a day                   *)
(***************************************************************************)
Apply(op, r) ==
    /\ steps < MaxSteps
    /\ steps' = steps + 1
    /\ customers' = r.customers
    /\ active_playbooks' = r.active_playbooks
    /\ outcome' = Outcome(op, r.error)
    /\ today' = today
    /\ calls' = calls
    /\ value_engine' = value_engine

AddCustomer ==
    \E customer \in DemoCustomers :
        /\ Apply("add_customer", add_customer(customers, active_playbooks, customer))
        /\ UNCHANGED other_writes

UpdateCustomerHealth ==
    \E customer_id \in CustomerIds, customer_data \in SignalBags :
        /\ customer_id \in DOMAIN customers
               => Len(customers[customer_id].health_history) < MaxHistory
        /\ Apply("update_customer_health",
                 update_customer_health(customers, active_playbooks,
                                        customer_id, customer_data, today))
        /\ UNCHANGED other_writes

\* a playbook id that is never registered
UnknownPlaybookId == PlaybookId("PIR", "CUST-404", 0)

\* the action ids a caller passes with a playbook id: those of the playbook and
\* one of the other template
ActionIdsFor(playbook_id) ==
    IF playbook_id \in DOMAIN active_playbooks
    THEN {active_playbooks[playbook_id].actions[i].action_id :
             i \in 1 .. Len(active_playbooks[playbook_id].actions)}
         \cup {IF active_playbooks[playbook_id].playbook_type = "engagement_revival"
               THEN "pir_001" ELSE "er_001"}
    ELSE {"pir_001"}

PlainCompletion == [status |-> "completed", outcome_notes |-> "", success_metrics |-> NoMetrics]

\* the regular way through a playbook: the plain completion of an action whose
\* predecessors in the template are all completed
InOrder(playbook_id, action_id, input) ==
    /\ input = PlainCompletion
    /\ playbook_id \in DOMAIN active_playbooks
    /\ LET playbook == active_playbooks[playbook_id]
           i == ActionIndex(playbook, action_id)
       IN  /\ i # 0
           /\ \A j \in 1 .. i - 1 : playbook.actions[j].status = "completed"

UpdatePlaybookAction ==
    \E playbook_id \in DOMAIN active_playbooks \cup {UnknownPlaybookId} :
      \E action_id \in ActionIdsFor(playbook_id) :
        \E input \in IF other_writes < MaxOtherWrites THEN UpdateInputs ELSE {PlainCompletion} :
          LET r == update_playbook_action(customers, active_playbooks,
                                          playbook_id, action_id, input)
              other == r.error = "none" /\ ~InOrder(playbook_id, action_id, input)
          IN  /\ other => other_writes < MaxOtherWrites
              /\ Apply("update_playbook_action", r)
              /\ other_writes' = IF other THEN other_writes + 1 ELSE other_writes

\* a report is no step of the budget: it changes nothing a later call depends on
GenerateRecoveryReport ==
    \E customer_id \in {None} \cup {Some(c) : c \in CustomerIds} :
        LET r == generate_recovery_report(customers, active_playbooks, customer_id)
        IN  /\ customers' = r.customers
            /\ active_playbooks' = r.active_playbooks
            /\ outcome' = Outcome("generate_recovery_report", r.error)
            /\ UNCHANGED <<today, steps, other_writes, calls, value_engine>>

Tick ==
    /\ today < MaxDay
    /\ steps < MaxSteps
    /\ today' = today + 1
    /\ steps' = steps + 1
    /\ UNCHANGED <<customers, active_playbooks, other_writes, outcome, calls, value_engine>>

Next ==
    \/ AddCustomer \/ UpdateCustomerHealth \/ UpdatePlaybookAction \/ Tick
    \/ GenerateRecoveryReport

Spec == Init /\ [][Next]_vars

(***************************************************************************)
(* Two callers in update_customer_health at once, on one engine without a  *)
(* lock.  A call is cut where the other caller's writes can fall: after    *)
(* the metrics are stored (lines 505-515), at the start and at the end of  *)
(* the iteration of _has_active_playbook over self.active_playbooks        *)
(* (lines 562-567), after the insert of _trigger_playbook (line 584) and   *)
(* before the score-drop rule (lines 553-558).                             *)
(***************************************************************************)
Threads == {1, 2}

\* the rules of _check_playbook_triggers that call _trigger_playbook, in order
Rules == <<"post_incident_recovery", "churn_prevention",
           "engagement_revival", "value_acceleration">>

Call(customer_id, customer_data) ==
    [customer_id |-> customer_id, customer_data |-> customer_data,
     pc |-> "start", rule |-> 1,
     previous_health |-> None, new_health |-> None,
     used |-> 0,        \* len(self.active_playbooks) when the iteration began
     created |-> {},    \* ids of the playbooks this call created and announced
     error |-> "none"]

\* the engines the callers start from: both demo customers registered, and
\* CUST-001 scored once or not yet
ThreadBases ==
    LET r0 == add_customer([c \in {} |-> 0], [p \in {} |-> 0],
                           CHOOSE c \in DemoCustomers : c.customer_id = "CUST-001")
        r1 == add_customer(r0.customers, r0.active_playbooks,
                           CHOOSE c \in DemoCustomers : c.customer_id = "CUST-002")
        r2 == update_customer_health(r1.customers, r1.active_playbooks,
                                     "CUST-001", enterprise_data, 0)
    IN  {r1, r2}

ThreadInit ==
    \E base \in ThreadBases, c2 \in {"CUST-001", "CUST-002"}, b1 \in SignalBags, b2 \in SignalBags :
        /\ customers = base.customers
        /\ active_playbooks = base.active_playbooks
        /\ today = 0
        /\ steps = 0
        /\ other_writes = 0
        /\ outcome = Outcome("__init__", "none")
        /\ calls = [started_from |-> [customers |-> base.customers,
                                      active_playbooks |-> base.active_playbooks],
                    thread |-> <<Call("CUST-001", b1), Call(c2, b2)>>]
        /\ value_engine = ValueAmplificationEngine

SetCall(t, call) ==
    calls' = [calls EXCEPT !.thread[t] = call]

\* the condition of a rule before its "not self._has_active_playbook(...)"
RuleCondition(customer, new_health, playbook_type) ==
    CASE playbook_type = "post_incident_recovery" ->
             customer.is_post_incident /\ customer.trust_rebuilding_required
      [] playbook_type = "churn_prevention" ->
             get_health_tier(new_health) \in {"critical", "red_alert"}
      [] playbook_type = "engagement_revival" ->
             new_health.engagement_score < 60 * Scale
      [] OTHER -> new_health.value_realization_score < 50 * Scale

\* the call after a rule is through
NextRule(call) ==
    IF call.rule < Len(Rules)
    THEN [call EXCEPT !.pc = "rule", !.rule = @ + 1]
    ELSE [call EXCEPT !.pc = "escalate"]

\* lines 505-515: the metrics are computed and stored
StoreMetrics(t) ==
    LET call == calls.thread[t]
        customer == customers[call.customer_id]
    IN  /\ call.pc = "start"
        /\ IF calculate_value_realization_score_raises(call.customer_data)
           THEN /\ SetCall(t, [call EXCEPT !.pc = "done", !.error = "ZeroDivisionError"])
                /\ UNCHANGED customers
           ELSE LET new_health == calculate_health_metrics(customer, call.customer_data)
                IN  /\ customers' = [customers EXCEPT ![call.customer_id] =
                                        [customer EXCEPT !.current_health = Some(new_health),
                                                         !.health_history = Append(@, new_health)]]
                    /\ SetCall(t, [call EXCEPT !.pc = "rule",
                                               !.previous_health = customer.current_health,
                                               !.new_health = Some(new_health)])
        /\ UNCHANGED <<active_playbooks, today, steps, other_writes, outcome,
                       value_engine>>

\* a rule's condition; when it holds, _has_active_playbook takes its iterator
\* of self.active_playbooks.values()
BeginRule(t) ==
    LET call == calls.thread[t]
    IN  /\ call.pc = "rule"
        /\ IF RuleCondition(customers[call.customer_id], Val(call.new_health), Rules[call.rule])
           THEN SetCall(t, [call EXCEPT !.pc = "iterating",
                                        !.used = Cardinality(DOMAIN active_playbooks)])
           ELSE SetCall(t, NextRule(call))
        /\ UNCHANGED <<customers, active_playbooks, today, steps, other_writes, outcome,
                       value_engine>>

\* the iteration ends with the dictionary at the size it began with
FinishIteration(t) ==
    LET call == calls.thread[t]
    IN  /\ call.pc = "iterating"
        /\ Cardinality(DOMAIN active_playbooks) = call.used
        /\ IF _has_active_playbook(active_playbooks, call.customer_id, Rules[call.rule])
           THEN SetCall(t, NextRule(call))
           ELSE SetCall(t, [call EXCEPT !.pc = "insert"])
        /\ UNCHANGED <<customers, active_playbooks, today, steps, other_writes, outcome,
                       value_engine>>

\* the other caller inserted meanwhile: "RuntimeError: dictionary changed size
\* during iteration" leaves update_customer_health
IterationFails(t) ==
    LET call == calls.thread[t]
    IN  /\ call.pc = "iterating"
        /\ Cardinality(DOMAIN active_playbooks) # call.used
        /\ SetCall(t, [call EXCEPT !.pc = "done", !.error = "RuntimeError"])
        /\ UNCHANGED <<customers, active_playbooks, today, steps, other_writes, outcome,
                       value_engine>>

\* _trigger_playbook: the playbook is built from the customer as it is now,
\* stored under its id and announced
InsertPlaybook(t) ==
    LET call == calls.thread[t]
        after == _trigger_playbook(active_playbooks, customers[call.customer_id],
                                   call.customer_id, Rules[call.rule], today)
        made == IF Rules[call.rule] = "post_incident_recovery"
                THEN {PlaybookId("PIR", call.customer_id, today)}
                ELSE IF Rules[call.rule] = "engagement_revival"
                THEN {PlaybookId("ER", call.customer_id, today)}
                ELSE {}
    IN  /\ call.pc = "insert"
        /\ active_playbooks' = after
        /\ SetCall(t, [NextRule(call) EXCEPT !.created = @ \cup made])
        /\ UNCHANGED <<customers, today, steps, other_writes, outcome,
                       value_engine>>

\* lines 553-558: the score-drop rule, then the call returns
Escalate(t) ==
    LET call == calls.thread[t]
        customer == customers[call.customer_id]
        escalate == /\ ~IsNone(call.previous_health)
                    /\ calculate_composite_score(Val(call.new_health))
                         < calculate_composite_score(Val(call.previous_health)) - 15 * Scale
    IN  /\ call.pc = "escalate"
        /\ customers' = IF escalate
                        THEN [customers EXCEPT ![call.customer_id] = _escalate_to_executive(customer)]
                        ELSE customers
        /\ SetCall(t, [call EXCEPT !.pc = "done"])
        /\ UNCHANGED <<active_playbooks, today, steps, other_writes, outcome,
                       value_engine>>

ThreadNext ==
    \E t \in Threads :
        \/ StoreMetrics(t)
        \/ BeginRule(t)
        \/ FinishIteration(t)
        \/ IterationFails(t)
        \/ InsertPlaybook(t)
        \/ Escalate(t)

ThreadSpec == ThreadInit /\ [][ThreadNext]_vars

(***************************************************************************)
(* Lifecycle behaviours: one customer, followed through the completion of  *)
(* a playbook and the update after it                                      *)
(***************************************************************************)
MaxLifeSteps == 8

\* the statuses a caller gives an action on its way through a playbook
LifeInputs ==
    {[status |-> st, outcome_notes |-> "", success_metrics |-> NoMetrics] :
        st \in {"completed", "skipped"}}

LifeApply(op, r) ==
    /\ steps < MaxLifeSteps
    /\ steps' = steps + 1
    /\ customers' = r.customers
    /\ active_playbooks' = r.active_playbooks
    /\ outcome' = Outcome(op, r.error)
    /\ UNCHANGED <<today, other_writes, calls, value_engine>>

LifeAddCustomer ==
    \E customer \in DemoCustomers :
        /\ DOMAIN customers = {}
        /\ LifeApply("add_customer", add_customer(customers, active_playbooks, customer))

LifeUpdateCustomerHealth ==
    \E customer_id \in DOMAIN customers, customer_data \in {enterprise_data, business_data} :
        /\ Len(customers[customer_id].health_history) < MaxHistory
        /\ LifeApply("update_customer_health",
                     update_customer_health(customers, active_playbooks,
                                            customer_id, customer_data, today))

\* an action not yet written is completed or skipped
LifeUpdatePlaybookAction ==
    \E playbook_id \in DOMAIN active_playbooks :
      \E i \in 1 .. Len(active_playbooks[playbook_id].actions) :
        \E input \in LifeInputs :
          /\ active_playbooks[playbook_id].actions[i].status = "pending"
          /\ LifeApply("update_playbook_action",
                       update_playbook_action(customers, active_playbooks, playbook_id,
                                              active_playbooks[playbook_id].actions[i].action_id,
                                              input))

LifeTick ==
    /\ today < MaxDay
    /\ steps < MaxLifeSteps
    /\ DOMAIN active_playbooks # {}
    /\ today' = today + 1
    /\ steps' = steps + 1
    /\ UNCHANGED <<customers, active_playbooks, other_writes, outcome, calls, value_engine>>

LifeNext ==
    \/ LifeAddCustomer \/ LifeUpdateCustomerHealth \/ LifeUpdatePlaybookAction \/ LifeTick

LifeSpec == Init /\ [][LifeNext]_vars

(***************************************************************************)
(* ValueAmplificationEngine (value_amplification_python.py): ROI metrics,  *)
(* success milestones and advocacy profiles.  An operator takes the engine *)
(* e and returns [engine, ret].                                            *)
(***************************************************************************)
MilestoneType == {"QUICK_WIN", "GROWTH_MILESTONE", "STRATEGIC_GOAL"}
MilestoneStatus == {"planned", "in_progress", "achieved", "missed", "deferred"}

\* AdvocacyLevel: the level numbers of NONE, REFERENCE, CASE_STUDY, SPEAKER,
\* CHAMPION and STRATEGIC_PARTNER
AdvocacyLevel == 0 .. 5
REFERENCE == 1
CASE_STUDY == 2
SPEAKER == 3
CHAMPION == 4

ValueResult(e, ret) == [engine |-> e, ret |-> ret]

\* x / y quantized to an integer with ROUND_HALF_UP (ties away from zero)
QuantizeHalfUp(x, y) ==
    LET ax == IF x < 0 THEN -x ELSE x
        ay == IF y < 0 THEN -y ELSE y
        q == (2 * ax + ay) \div (2 * ay)
    IN  IF (x < 0) = (y < 0) THEN q ELSE -q

ROIMetric(metric_id, baseline_value, current_value) ==
    [metric_id |-> metric_id, baseline_value |-> baseline_value,
     current_value |-> current_value]

\* in hundredths of a percent: (improvement / baseline * 100).quantize(0.01)
calculate_improvement_percentage(metric) ==
    IF metric.baseline_value = 0 THEN 0
    ELSE QuantizeHalfUp((metric.current_value - metric.baseline_value) * 10000,
                        metric.baseline_value)

SuccessMilestone(milestone_id, customer_id, milestone_type) ==
    [milestone_id |-> milestone_id, customer_id |-> customer_id,
     milestone_type |-> milestone_type, status |-> "planned",
     achieved_date |-> None, achievement_metrics |-> NoMetrics]

mark_achieved(milestone, achieved_date, metrics) ==
    [milestone EXCEPT !.status = "achieved",
                      !.achieved_date = Some(achieved_date),
                      !.achievement_metrics = metrics @@ @]

CustomerAdvocacyProfile(customer_id) ==
    [customer_id |-> customer_id, current_level |-> 0,
     willing_to_participate |-> FALSE, participated_activities |-> <<>>]

\* the profile after the call (it returns whether the level was raised)
promote_advocacy_level(profile, new_level) ==
    IF new_level > profile.current_level
    THEN [profile EXCEPT !.current_level = new_level,
                         !.participated_activities = Append(@, "promoted")]
    ELSE profile

\* self.customer_milestones.get(customer_id, [])
MilestonesOf(e, customer_id) ==
    IF customer_id \in DOMAIN e.customer_milestones
    THEN e.customer_milestones[customer_id] ELSE <<>>

\* milestone_id = f"MILESTONE-{customer_id}-{milestone_type.name}-{uuid4}":
\* the uuid part is a value no other milestone has
create_success_milestone(e, customer_id, milestone_type) ==
    LET milestone_id == <<customer_id, milestone_type, Len(MilestonesOf(e, customer_id)) + 1>>
        milestone == SuccessMilestone(milestone_id, customer_id, milestone_type)
    IN  ValueResult([e EXCEPT !.customer_milestones =
                        (customer_id :> Append(MilestonesOf(e, customer_id), milestone)) @@ @],
                    Some(milestone_id))

_check_advocacy_level_promotion(e, customer_id, milestone) ==
    IF /\ customer_id \in DOMAIN e.advocacy_profiles
       /\ milestone.milestone_type = "STRATEGIC_GOAL"
       /\ e.advocacy_profiles[customer_id].current_level < REFERENCE
    THEN [e EXCEPT !.advocacy_profiles[customer_id] = promote_advocacy_level(@, REFERENCE)]
    ELSE e

\* the first milestone of the customer with the id is marked achieved,
\* whatever its status
achieve_milestone(e, customer_id, milestone_id, achievement_metrics, day) ==
    LET milestones == MilestonesOf(e, customer_id)
        found == {i \in 1 .. Len(milestones) : milestones[i].milestone_id = milestone_id}
    IN  IF found = {} THEN ValueResult(e, FALSE)
        ELSE LET i == CHOOSE j \in found : \A k \in found : j <= k
                 achieved == mark_achieved(milestones[i], day, achievement_metrics)
                 marked == [e EXCEPT !.customer_milestones[customer_id][i] = achieved]
             IN  ValueResult(_check_advocacy_level_promotion(marked, customer_id, achieved),
                             TRUE)

\* faulty variant: every type is completed by a 10% improvement
_does_metric_complete_milestone_flat(metric, milestone) ==
    calculate_improvement_percentage(metric) >= 10 * 100

_does_metric_complete_milestone(metric, milestone) ==
    LET improvement_threshold ==
            [QUICK_WIN |-> 10 * 100, GROWTH_MILESTONE |-> 25 * 100, STRATEGIC_GOAL |-> 50 * 100]
    IN  calculate_improvement_percentage(metric)
            >= improvement_threshold[milestone.milestone_type]

\* the loop of _check_milestone_completion_triggers from the i-th milestone on
RECURSIVE _check_milestone_completion_triggers(_, _, _, _, _)
_check_milestone_completion_triggers(e, customer_id, metric, day, i) ==
    LET milestones == MilestonesOf(e, customer_id)
    IN  IF i > Len(milestones) THEN e
        ELSE IF /\ milestones[i].status = "in_progress"
                /\ _does_metric_complete_milestone(metric, milestones[i])
        THEN _check_milestone_completion_triggers(
                 achieve_milestone(e, customer_id, milestones[i].milestone_id,
                                   [triggering_metric |-> metric.metric_id,
                                    auto_completed |-> TRUE], day).engine,
                 customer_id, metric, day, i + 1)
        ELSE _check_milestone_completion_triggers(e, customer_id, metric, day, i + 1)

add_roi_metric(e, customer_id, metric, day) ==
    LET held == IF customer_id \in DOMAIN e.customers_roi_metrics
                THEN e.customers_roi_metrics[customer_id] ELSE [m \in {} |-> 0]
        stored == [e EXCEPT !.customers_roi_metrics =
                      (customer_id :> ((metric.metric_id :> metric) @@ held)) @@ @]
    IN  ValueResult(_check_milestone_completion_triggers(stored, customer_id, metric, day, 1),
                    None)

update_roi_metric(e, customer_id, metric_id, new_value) ==
    IF \/ customer_id \notin DOMAIN e.customers_roi_metrics
       \/ metric_id \notin DOMAIN e.customers_roi_metrics[customer_id]
    THEN ValueResult(e, None)
    ELSE LET updated_metric == [e.customers_roi_metrics[customer_id][metric_id]
                                   EXCEPT !.current_value = new_value]
         IN  ValueResult([e EXCEPT !.customers_roi_metrics[customer_id][metric_id] =
                             updated_metric],
                         Some(updated_metric))

enroll_in_advocacy_program(e, customer_id) ==
    LET profile == [CustomerAdvocacyProfile(customer_id) EXCEPT !.willing_to_participate = TRUE]
    IN  ValueResult([e EXCEPT !.advocacy_profiles = (customer_id :> profile) @@ @], None)

\* an activity text is taken by the keywords it contains
ActivityKeywords == {"case study", "speaking", "champion"}

_evaluate_advocacy_level_promotion(profile, activity) ==
    LET current_level == profile.current_level
        new_level == IF "case study" \in activity /\ current_level < CASE_STUDY
                     THEN CASE_STUDY
                     ELSE IF "speaking" \in activity /\ current_level < SPEAKER
                     THEN SPEAKER
                     ELSE IF "champion" \in activity /\ current_level < CHAMPION
                     THEN CHAMPION
                     ELSE current_level
    IN  IF new_level # current_level
        THEN promote_advocacy_level(profile, new_level)
        ELSE profile

record_advocacy_activity(e, customer_id, activity) ==
    IF customer_id \notin DOMAIN e.advocacy_profiles
    THEN ValueResult(e, None)
    ELSE LET noted == [e.advocacy_profiles[customer_id]
                          EXCEPT !.participated_activities = Append(@, "activity")]
         IN  ValueResult([e EXCEPT !.advocacy_profiles[customer_id] =
                             _evaluate_advocacy_level_promotion(noted, activity)],
                         None)

\* the caller's own write of milestone.status: the engine sets no status but
\* achieved, a milestone is started, missed or deferred by its owner
set_milestone_status(e, customer_id, i, status) ==
    [e EXCEPT !.customer_milestones[customer_id][i].status = status]

(***************************************************************************)
(* Value behaviours: the calls a caller makes on a ValueAmplificationEngine *)
(***************************************************************************)
MaxValueSteps == 5
MaxMilestones == 2

ValueCustomers == {"CUST-001", "CUST-002"}

\* improvements of 5, 10, 25 and 50 percent, of 9.995 percent (quantized to
\* 10.00), and a baseline of 0
MetricInputs ==
    {ROIMetric("ROI-001", x[1], x[2]) :
        x \in {<<100, 105>>, <<100, 110>>, <<100, 125>>, <<100, 150>>,
               <<20000, 21999>>, <<0, 50>>}}

ActivityInputs == {{}, {"case study"}, {"speaking"}, {"champion"}, {"speaking", "champion"}}

ValueApply(op, r) ==
    /\ steps < MaxValueSteps
    /\ steps' = steps + 1
    /\ value_engine' = r.engine
    /\ outcome' = Outcome(op, "none")
    /\ UNCHANGED <<customers, active_playbooks, other_writes, calls>>

CreateSuccessMilestone ==
    \E customer_id \in ValueCustomers, milestone_type \in MilestoneType :
        /\ Len(MilestonesOf(value_engine, customer_id)) < MaxMilestones
        /\ ValueApply("create_success_milestone",
                      create_success_milestone(value_engine, customer_id, milestone_type))
        /\ UNCHANGED today

SetMilestoneStatus ==
    \E customer_id \in DOMAIN value_engine.customer_milestones :
      \E i \in 1 .. Len(value_engine.customer_milestones[customer_id]) :
        \E status \in {"in_progress", "deferred"} :
          /\ value_engine.customer_milestones[customer_id][i].status \in {"planned", "in_progress"}
          /\ value_engine.customer_milestones[customer_id][i].status # status
          /\ ValueApply("milestone.status",
                        ValueResult(set_milestone_status(value_engine, customer_id, i, status),
                                    None))
          /\ UNCHANGED today

AddRoiMetric ==
    \E customer_id \in ValueCustomers, metric \in MetricInputs :
        /\ ValueApply("add_roi_metric",
                      add_roi_metric(value_engine, customer_id, metric, today))
        /\ UNCHANGED today

UpdateRoiMetric ==
    \E customer_id \in ValueCustomers, new_value \in {150} :
        /\ ValueApply("update_roi_metric",
                      update_roi_metric(value_engine, customer_id, "ROI-001", new_value))
        /\ UNCHANGED today

AchieveMilestone ==
    \E customer_id \in ValueCustomers :
      \E i \in 1 .. Len(MilestonesOf(value_engine, customer_id)) :
        /\ ValueApply("achieve_milestone",
                      achieve_milestone(value_engine, customer_id,
                                        MilestonesOf(value_engine, customer_id)[i].milestone_id,
                                        NoMetrics, today))
        /\ UNCHANGED today

EnrollInAdvocacyProgram ==
    \E customer_id \in ValueCustomers :
        /\ ValueApply("enroll_in_advocacy_program",
                      enroll_in_advocacy_program(value_engine, customer_id))
        /\ UNCHANGED today

RecordAdvocacyActivity ==
    \E customer_id \in ValueCustomers, activity \in ActivityInputs :
        /\ ValueApply("record_advocacy_activity",
                      record_advocacy_activity(value_engine, customer_id, activity))
        /\ UNCHANGED today

\* profile.promote_advocacy_level(new_level, reason), called on a profile
PromoteAdvocacyLevel ==
    \E customer_id \in DOMAIN value_engine.advocacy_profiles, new_level \in AdvocacyLevel :
        /\ ValueApply("promote_advocacy_level",
                      ValueResult([value_engine EXCEPT !.advocacy_profiles[customer_id] =
                                      promote_advocacy_level(@, new_level)], None))
        /\ UNCHANGED today

ValueNext ==
    \/ CreateSuccessMilestone \/ SetMilestoneStatus \/ AddRoiMetric \/ UpdateRoiMetric
    \/ AchieveMilestone \/ EnrollInAdvocacyProgram \/ RecordAdvocacyActivity
    \/ PromoteAdvocacyLevel

ValueSpec == Init /\ [][ValueNext]_vars

(***************************************************************************)
(* Scoring behaviours: one customer of any profile, updated with any bag   *)
(***************************************************************************)
ScoreAddCustomer ==
    \E customer \in ScoreProfiles :
        /\ DOMAIN customers = {}
        /\ Apply("add_customer", add_customer(customers, active_playbooks, customer))
        /\ UNCHANGED other_writes

ScoreUpdateCustomerHealth ==
    \E customer_id \in DOMAIN customers, customer_data \in ExtremeBags :
        /\ Len(customers[customer_id].health_history) < MaxHistory
        /\ Apply("update_customer_health",
                 update_customer_health(customers, active_playbooks,
                                        customer_id, customer_data, today))
        /\ UNCHANGED other_writes

ScoreNext == ScoreAddCustomer \/ ScoreUpdateCustomerHealth

ScoreSpec == Init /\ [][ScoreNext]_vars

(***************************************************************************)
(* Properties.  A property about "the state after a call" is stated over   *)
(* the result of the handler applied to the registries of every reachable  *)
(* state and to every argument, so it also covers the calls that the       *)
(* explored behaviours end before.                                         *)
(***************************************************************************)
Implemented == {"post_incident_recovery", "engagement_revival"}
GoodBags == {b \in SignalBags : ~calculate_value_realization_score_raises(b)}
Registered == DOMAIN customers

\* ids of the Active playbooks of a kind of a customer
ActiveOf(pbs, customer_id, playbook_type) ==
    {id \in DOMAIN pbs : /\ pbs[id].customer_id = customer_id
                         /\ pbs[id].playbook_type = playbook_type
                         /\ pbs[id].status = "active"}

AtMostOneActive(pbs) ==
    \A p, q \in DOMAIN pbs :
        (/\ pbs[p].status = "active" /\ pbs[q].status = "active"
         /\ pbs[p].customer_id = pbs[q].customer_id
         /\ pbs[p].playbook_type = pbs[q].playbook_type) => p = q

\* the results of every call a caller can make in the current state, today or
\* after the day has changed
HealthResults ==
    {update_customer_health(customers, active_playbooks, c, b, d) :
        c \in CustomerIds, b \in SignalBags, d \in {today, today + 1}}
ActionCalls ==
    {<<id, a, input>> : id \in DOMAIN active_playbooks \cup {UnknownPlaybookId},
                        a \in ActionIds, input \in UpdateInputs}
ActionResults ==
    {update_playbook_action(customers, active_playbooks, x[1], x[2], x[3]) : x \in ActionCalls}

\* C1: in every reachable state, and in the state after any further call, each
\* (customer_id, playbook_type) pair has at most one playbook with status Active.
C1_AtMostOneActive ==
    /\ AtMostOneActive(active_playbooks)
    /\ \A r \in HealthResults : AtMostOneActive(r.active_playbooks)

\* a customer was updated twice with engagement below 60 both times and holds
\* one Active engagement-revival playbook
C1_Witness ==
    \E c \in Registered :
        /\ Len(customers[c].health_history) = 2
        /\ \A i \in 1 .. 2 : customers[c].health_history[i].engagement_score < 60 * Scale
        /\ Cardinality(ActiveOf(active_playbooks, c, "engagement_revival")) = 1

\* the trigger evaluation of an update of customer c with bag b, and the same
\* evaluation repeated on its result on day d2
FirstEvaluation(c, b) ==
    LET new == calculate_health_metrics(customers[c], b)
        updated == [customers[c] EXCEPT !.current_health = Some(new),
                                        !.health_history = Append(@, new)]
    IN  _check_playbook_triggers(active_playbooks, updated, c,
                                 customers[c].current_health, new, today)
SecondEvaluation(c, b, d2) ==
    LET r1 == FirstEvaluation(c, b)
    IN  _check_playbook_triggers(r1.active_playbooks, r1.customer, c,
                                 customers[c].current_health,
                                 Val(r1.customer.current_health), d2)

\* C2: evaluating the triggers a second time with the same (profile, previous,
\* new), the same day or the next, leaves the registry as the first evaluation
\* left it and never leaves two Active playbooks of one kind for one customer.
C2_TriggerIdempotent ==
    \A c \in Registered, b \in GoodBags, d2 \in {today, today + 1} :
        LET r1 == FirstEvaluation(c, b)
            r2 == SecondEvaluation(c, b, d2)
        IN  /\ r2.active_playbooks = r1.active_playbooks
            /\ r2.customer = r1.customer
            /\ AtMostOneActive(r2.active_playbooks)

\* an update has happened and a first evaluation exists that registers a playbook
C2_Witness ==
    /\ outcome = Outcome("update_customer_health", "none")
    /\ \E c \in Registered, b \in GoodBags :
          /\ ~IsNone(customers[c].current_health)
          /\ DOMAIN FirstEvaluation(c, b).active_playbooks # DOMAIN active_playbooks

CompletedIffFull(pbs) ==
    \A id \in DOMAIN pbs :
        pbs[id].status = "completed" <=> pbs[id].completion_percentage = 100 * Scale

\* C3: in every reachable state and after every update_playbook_action call, a
\* playbook has status Completed exactly when its completion_percentage is 100.
C3_CompletedIffFull ==
    /\ CompletedIffFull(active_playbooks)
    /\ \A r \in ActionResults : CompletedIffFull(r.active_playbooks)

\* completion_percentage = completed / total * 100, without the division
PercentageIsDerived(pbs) ==
    \A id \in DOMAIN pbs :
        pbs[id].completion_percentage * Len(pbs[id].actions)
          = 100 * Scale * Cardinality({i \in 1 .. Len(pbs[id].actions) :
                                          pbs[id].actions[i].status = "completed"})

\* C4: in every reachable state and after every call, each playbook's
\* completion_percentage is (its Completed actions) / (its actions) * 100.
C4_PercentageIsDerived ==
    /\ PercentageIsDerived(active_playbooks)
    /\ \A r \in ActionResults : PercentageIsDerived(r.active_playbooks)

\* a playbook with a Completed action, an action that is neither Pending nor
\* Completed, and a percentage strictly between 0 and 100
C4_Witness ==
    \E id \in DOMAIN active_playbooks :
        LET pb == active_playbooks[id]
        IN  /\ pb.completion_percentage > 0
            /\ pb.completion_percentage < 100 * Scale
            /\ \E i \in 1 .. Len(pb.actions) : pb.actions[i].status \in {"in_progress", "skipped"}

Rank(status) == CASE status = "pending" -> 0
                  [] status = "in_progress" -> 1
                  [] status = "completed" -> 2
                  [] OTHER -> -1

AllCompleted(pb) == \A i \in 1 .. Len(pb.actions) : pb.actions[i].status = "completed"

\* C5: a call that moves an action forward along Pending -> InProgress ->
\* Completed, whichever action it is, never lowers the playbook's
\* completion_percentage, and the percentage is 100 exactly when all actions
\* of the playbook are Completed.
C5_ForwardMonotone ==
    /\ \A id \in DOMAIN active_playbooks :
          active_playbooks[id].completion_percentage = 100 * Scale
              <=> AllCompleted(active_playbooks[id])
    /\ \A id \in DOMAIN active_playbooks, input \in UpdateInputs :
          \A i \in 1 .. Len(active_playbooks[id].actions) :
             LET pb == active_playbooks[id]
                 r == update_playbook_action(customers, active_playbooks, id,
                                             pb.actions[i].action_id, input)
                 after == r.active_playbooks[id]
             IN  (/\ Rank(pb.actions[i].status) >= 0
                  /\ Rank(input.status) >= Rank(pb.actions[i].status))
                 => /\ r.error = "none"
                    /\ after.completion_percentage >= pb.completion_percentage
                    /\ after.completion_percentage = 100 * Scale <=> AllCompleted(after)

\* a playbook brought to 100 with every action Completed
C5_Witness ==
    \E id \in DOMAIN active_playbooks :
        /\ AllCompleted(active_playbooks[id])
        /\ active_playbooks[id].completion_percentage = 100 * Scale

LastIsCurrent(cs) ==
    \A c \in DOMAIN cs :
        Len(cs[c].health_history) > 0
            => cs[c].current_health = Some(cs[c].health_history[Len(cs[c].health_history)])

\* C6: after a successful update_customer_health the customer's current_health
\* is the last element of health_history, that element is the value returned,
\* and the call appended exactly it; so in every reachable state a customer
\* with a history has its last element as current_health.
C6_CurrentIsLastOfHistory ==
    /\ LastIsCurrent(customers)
    /\ \A c \in Registered, b \in GoodBags :
          LET r == update_customer_health(customers, active_playbooks, c, b, today)
          IN  /\ r.error = "none"
              /\ ~IsNone(r.ret)
              /\ r.ret = r.customers[c].current_health
              /\ r.customers[c].health_history
                   = Append(customers[c].health_history, Val(r.ret))
              /\ LastIsCurrent(r.customers)

\* a customer updated twice, with different metrics
C6_Witness ==
    /\ outcome = Outcome("update_customer_health", "none")
    /\ \E c \in Registered :
          /\ Len(customers[c].health_history) = 2
          /\ customers[c].health_history[1] # customers[c].health_history[2]

\* C7: update_customer_health with a customer_id that is not registered raises
\* the not-found error and leaves the customers and the playbooks as they were.
C7_UnknownCustomerRejected ==
    \A c \in CustomerIds \ Registered, b \in SignalBags, d \in {today, today + 1} :
        LET r == update_customer_health(customers, active_playbooks, c, b, d)
        IN  /\ r.error = "ValueError"
            /\ r.ret = None
            /\ r.customers = customers
            /\ r.active_playbooks = active_playbooks

\* such a call was made while customers and playbooks were registered
C7_Witness ==
    /\ outcome = Outcome("update_customer_health", "ValueError")
    /\ Registered # {}
    /\ DOMAIN active_playbooks # {}

\* C8: update_playbook_action with a playbook_id that is not registered, or
\* with an action_id that is not an action of the named playbook, raises the
\* not-found error and leaves every action, percentage and status as it was.
C8_UnknownActionRejected ==
    \A x \in ActionCalls :
        LET known == /\ x[1] \in DOMAIN active_playbooks
                     /\ \E i \in 1 .. Len(active_playbooks[x[1]].actions) :
                           active_playbooks[x[1]].actions[i].action_id = x[2]
            r == update_playbook_action(customers, active_playbooks, x[1], x[2], x[3])
        IN  IF known
            THEN r.error = "none"
            ELSE /\ r.error = "ValueError"
                 /\ r.customers = customers
                 /\ r.active_playbooks = active_playbooks

\* such a call was made on a registry holding a playbook already worked on
C8_Witness ==
    /\ outcome = Outcome("update_playbook_action", "ValueError")
    /\ \E id \in DOMAIN active_playbooks :
          /\ active_playbooks[id].completion_percentage > 0
          /\ \E i \in 1 .. Len(active_playbooks[id].actions) :
                active_playbooks[id].actions[i].status = "in_progress"

\* the rules of the kinds without a template hold for metrics m
WantsUnimplemented(m) ==
    \/ get_health_tier(m) \in {"critical", "red_alert"}
    \/ m.value_realization_score < 50 * Scale

\* C9: triggering a kind without a template (TrustRebuilding, ChurnPrevention,
\* ValueAcceleration) leaves the registry as it was, no playbook of such a kind
\* is ever registered, and an update whose metrics satisfy the rules of those
\* kinds still records and returns the new metrics.
C9_NoTemplateNoOp ==
    /\ \A id \in DOMAIN active_playbooks : active_playbooks[id].playbook_type \in Implemented
    /\ \A c \in Registered, t \in PlaybookType \ Implemented, d \in {today, today + 1} :
          _trigger_playbook(active_playbooks, customers[c], c, t, d) = active_playbooks
    /\ \A c \in Registered, b \in GoodBags :
          LET r == update_customer_health(customers, active_playbooks, c, b, today)
              new == calculate_health_metrics(customers[c], b)
          IN  WantsUnimplemented(new)
              => /\ r.error = "none"
                 /\ r.ret = Some(new)
                 /\ r.customers[c].current_health = Some(new)
                 /\ r.customers[c].health_history = Append(customers[c].health_history, new)
                 /\ \A id \in DOMAIN r.active_playbooks :
                       r.active_playbooks[id].playbook_type \in Implemented

\* an update was made whose metrics are Critical or RedAlert with low value
C9_Witness ==
    /\ outcome = Outcome("update_customer_health", "none")
    /\ \E c \in Registered :
          /\ ~IsNone(customers[c].current_health)
          /\ get_health_tier(Val(customers[c].current_health)) \in {"critical", "red_alert"}
          /\ Val(customers[c].current_health).value_realization_score < 50 * Scale

Flagged(cs) ==
    {c \in DOMAIN cs : cs[c].is_post_incident /\ cs[c].trust_rebuilding_required}

\* a post-incident playbook of customer c that the update registered or replaced
CreatedPIR(pbs, after, c) ==
    \E id \in DOMAIN after :
        /\ after[id].customer_id = c
        /\ after[id].playbook_type = "post_incident_recovery"
        /\ id \notin DOMAIN pbs \/ after[id] # pbs[id]

\* the state after update_customer_health on registries (cs, pbs) for customer c
ExactlyOnePIRAfter(cs, pbs, c, b, d) ==
    LET r == update_customer_health(cs, pbs, c, b, d)
    IN  /\ r.error = "none"
        /\ Cardinality(ActiveOf(r.active_playbooks, c, "post_incident_recovery")) = 1
        /\ CreatedPIR(pbs, r.active_playbooks, c)
             <=> ActiveOf(pbs, c, "post_incident_recovery") = {}

\* C10: after a successful update_customer_health for a customer with
\* is_post_incident and trust_rebuilding_required, exactly one Active
\* PostIncidentRecovery playbook exists for that customer, and the call created
\* one exactly when none was Active before; also when the call follows the
\* completion of the customer's previous PostIncidentRecovery playbook.
C10_ExactlyOnePostIncident ==
    \A c \in Flagged(customers), b \in GoodBags, d \in {today, today + 1} :
        /\ ExactlyOnePIRAfter(customers, active_playbooks, c, b, d)
        /\ \A id \in ActiveOf(active_playbooks, c, "post_incident_recovery") :
              \A i \in 1 .. Len(active_playbooks[id].actions) :
                 LET r1 == update_playbook_action(customers, active_playbooks, id,
                               active_playbooks[id].actions[i].action_id, PlainCompletion)
                 IN  r1.active_playbooks[id].status = "completed"
                     => ExactlyOnePIRAfter(r1.customers, r1.active_playbooks, c, b, d)

\* a flagged customer, updated, holds one Active post-incident playbook
\* with all its actions but the last Completed
C10_Witness ==
    \E c \in Flagged(customers) :
        /\ Len(customers[c].health_history) >= 1
        /\ \E id \in ActiveOf(active_playbooks, c, "post_incident_recovery") :
              active_playbooks[id].completion_percentage = 80 * Scale

LowTier(m) == get_health_tier(m) \in {"critical", "red_alert"}

\* C11 as stated: after a successful update_customer_health whose new metrics
\* are Critical or RedAlert, a churn-prevention playbook of that customer is
\* Active in the registry.
C11_ChurnPreventionActive ==
    \A c \in Registered, b \in GoodBags :
        LET r == update_customer_health(customers, active_playbooks, c, b, today)
        IN  (r.error = "none" /\ LowTier(Val(r.ret)))
            => ActiveOf(r.active_playbooks, c, "churn_prevention") # {}

\* C11 as the program behaves: churn prevention has no template, so after a
\* successful update_customer_health whose new metrics are Critical or
\* RedAlert the update has recorded the metrics and the registry holds no
\* churn-prevention playbook, of that customer or of any other.
C11_ChurnPreventionNotRegistered ==
    /\ \A id \in DOMAIN active_playbooks :
          active_playbooks[id].playbook_type # "churn_prevention"
    /\ \A c \in Registered, b \in GoodBags :
          LET r == update_customer_health(customers, active_playbooks, c, b, today)
          IN  (r.error = "none" /\ LowTier(Val(r.ret)))
              => /\ r.customers[c].current_health = r.ret
                 /\ \A id \in DOMAIN r.active_playbooks :
                       r.active_playbooks[id].playbook_type # "churn_prevention"

\* a customer was updated into RedAlert and holds an Active playbook of
\* another kind
C11_Witness ==
    /\ outcome = Outcome("update_customer_health", "none")
    /\ \E c \in Registered :
          /\ ~IsNone(customers[c].current_health)
          /\ get_health_tier(Val(customers[c].current_health)) = "red_alert"
          /\ ActiveOf(active_playbooks, c, "engagement_revival") # {}

\* an engagement-revival playbook of customer c that the update registered or replaced
CreatedER(pbs, after, c) ==
    \E id \in DOMAIN after :
        /\ after[id].customer_id = c
        /\ after[id].playbook_type = "engagement_revival"
        /\ id \notin DOMAIN pbs \/ after[id] # pbs[id]

\* C12: after a successful update_customer_health whose new engagement_score
\* is below 60 exactly one engagement-revival playbook of that customer is
\* Active, and the update created one exactly when the score is below 60 and
\* none was Active before; a score of exactly 60 or more creates none.
C12_EngagementRevival ==
    \A c \in Registered, b \in GoodBags \cup {engagement_60_data}, d \in {today, today + 1} :
        LET r == update_customer_health(customers, active_playbooks, c, b, d)
            low == Val(r.ret).engagement_score < 60 * Scale
        IN  /\ r.error = "none"
            /\ low => Cardinality(ActiveOf(r.active_playbooks, c, "engagement_revival")) = 1
            /\ ~low => ~CreatedER(active_playbooks, r.active_playbooks, c)
            /\ CreatedER(active_playbooks, r.active_playbooks, c)
                 <=> (low /\ ActiveOf(active_playbooks, c, "engagement_revival") = {})

\* one customer updated with engagement of 60 or more and no engagement-revival
\* playbook, another updated with engagement below 60 and one Active
C12_Witness ==
    \E c1, c2 \in Registered :
        /\ ~IsNone(customers[c1].current_health)
        /\ Val(customers[c1].current_health).engagement_score >= 60 * Scale
        /\ \A id \in DOMAIN active_playbooks :
              active_playbooks[id].customer_id = c1
                  => active_playbooks[id].playbook_type # "engagement_revival"
        /\ ~IsNone(customers[c2].current_health)
        /\ Val(customers[c2].current_health).engagement_score < 60 * Scale
        /\ Cardinality(ActiveOf(active_playbooks, c2, "engagement_revival")) = 1

\* HealthMetrics whose composite score is x: 0.35 x + 0.30 x + 0.25 x + 0.10 x
MetricsOf(x) ==
    [engagement_score |-> x, value_realization_score |-> x,
     relationship_health_score |-> x, risk_indicators_score |-> 100 * Scale - x]

\* composites around the escalation threshold: 70 -> 50 (drop 20), 70 -> 55
\* (exactly 15), 70 -> 54.999, 50 -> 48 (drop 2), 48 -> 70 (a rise)
DropScores == {S(70, 0), S(55, 0), S(54, 999), S(50, 0), S(48, 0)}

CreatedLike(pbs, after, p) ==
    \E id \in DOMAIN after :
        /\ after[id].customer_id = p.customer_id
        /\ after[id].playbook_type = p.playbook_type
        /\ id \notin DOMAIN pbs \/ after[id] # pbs[id]

\* C14: while a customer's playbook of some kind has status Paused or
\* Cancelled, set by the caller, update_customer_health creates no other
\* playbook of that kind for that customer.
C14_PausedStopsRetrigger ==
    \A id \in DOMAIN active_playbooks, status \in {"paused", "cancelled"} :
        \A b \in GoodBags, d \in {today, today + 1} :
            LET held == set_playbook_status(active_playbooks, id, status)
                r == update_customer_health(customers, held,
                                            active_playbooks[id].customer_id, b, d)
            IN  (active_playbooks[id].status = "active" /\ r.error = "none")
                => ~CreatedLike(held, r.active_playbooks, active_playbooks[id])

\* C15: playbook_id is globally unique: a playbook that update_customer_health
\* creates never carries the playbook_id of another playbook the engine has
\* created, also when its kind is triggered again for the customer on the
\* same calendar day.
C15_PlaybookIdUnique ==
    \A c \in Registered, b \in GoodBags :
        LET r == update_customer_health(customers, active_playbooks, c, b, today)
        IN  \A id \in DOMAIN r.active_playbooks \cap DOMAIN active_playbooks :
                r.active_playbooks[id] = active_playbooks[id]

\* every HealthMetrics that update_customer_health has stored
StoredMetrics ==
    UNION {{customers[c].health_history[i] : i \in 1 .. Len(customers[c].health_history)} :
              c \in Registered}

TierBoundaryScores ==
    {0, S(39, 999), S(40, 0), S(59, 999), S(60, 0), S(79, 999), S(80, 0), S(100, 0)}

TierPartition(m) ==
    LET s == calculate_composite_score(m)
        tier == get_health_tier(m)
    IN  /\ tier \in HealthTier
        /\ tier = "healthy" <=> s >= S(80, 0)
        /\ tier = "at_risk" <=> (S(60, 0) <= s /\ s < S(80, 0))
        /\ tier = "critical" <=> (S(40, 0) <= s /\ s < S(60, 0))
        /\ tier = "red_alert" <=> s < S(40, 0)

\* C16: get_health_tier is Healthy iff the composite s >= 80, AtRisk iff
\* 60 <= s < 80, Critical iff 40 <= s < 60 and RedAlert iff s < 40, for every
\* stored HealthMetrics and for composites at and just below 40, 60 and 80.
C16_TierPartition ==
    \A m \in StoredMetrics \cup {MetricsOf(x) : x \in TierBoundaryScores} : TierPartition(m)

\* a customer scored Healthy by one update and RedAlert by the next
C16_Witness ==
    \E c \in Registered :
        /\ Len(customers[c].health_history) = 2
        /\ get_health_tier(customers[c].health_history[1]) = "healthy"
        /\ get_health_tier(customers[c].health_history[2]) = "red_alert"

\* the weighted sum of the four sub-scores, in 1/Scale
WeightedSum(m) ==
    (m.engagement_score * 35 + m.value_realization_score * 30
     + m.relationship_health_score * 25
     + (100 * Scale - m.risk_indicators_score) * 10) \div 100

\* C17: the composite score of every HealthMetrics stored by
\* update_customer_health is within [0,100], for every bag (negative, zero and
\* very large signals included), every segment and is_post_incident; so is the
\* composite of what a further update with any bag returns.
C17_CompositeInRange ==
    /\ \A m \in StoredMetrics :
          calculate_composite_score(m) >= 0 /\ calculate_composite_score(m) <= 100 * Scale
    /\ \A c \in Registered, b \in ExtremeBags :
          LET r == update_customer_health(customers, active_playbooks, c, b, today)
          IN  r.error = "none"
              => /\ calculate_composite_score(Val(r.ret)) >= 0
                 /\ calculate_composite_score(Val(r.ret)) <= 100 * Scale

\* stored metrics whose weighted sum is below 0 and stored metrics whose
\* weighted sum is above 100
C17_Witness ==
    /\ \E m \in StoredMetrics : WeightedSum(m) < 0
    /\ \E m \in StoredMetrics : WeightedSum(m) > 100 * Scale

SubScores(m) ==
    {m.engagement_score, m.value_realization_score,
     m.relationship_health_score, m.risk_indicators_score}

\* C18: each of the four sub-scores of every HealthMetrics that
\* calculate_health_metrics returns and update_customer_health stores lies in
\* [0,100], for every bag.
C18_SubScoresInRange ==
    \A m \in StoredMetrics : \A x \in SubScores(m) : x >= 0 /\ x <= 100 * Scale

\* C19: for a registered customer update_customer_health returns a
\* HealthMetrics for every bag of numeric values and never raises.
C19_NeverRaises ==
    /\ outcome.op = "update_customer_health" => outcome.error = "none"
    /\ \A c \in Registered, b \in ExtremeBags :
          LET r == update_customer_health(customers, active_playbooks, c, b, today)
          IN  r.error = "none" /\ r.ret # None

ReportArguments == {None} \cup {Some(c) : c \in CustomerIds}

ReportChangesNothing ==
    \A customer_id \in ReportArguments :
        LET r == generate_recovery_report(customers, active_playbooks, customer_id)
        IN  /\ r.error = "none"
            /\ r.ret # None
            /\ r.customers = customers
            /\ r.active_playbooks = active_playbooks

\* C20: generate_recovery_report, called with no customer_id, a registered one
\* or an unregistered one, returns a report and leaves every customer record
\* and every playbook of the registry as it was, in every reachable state and
\* in every step the report takes.
C20_ReportReadOnly ==
    /\ []ReportChangesNothing
    /\ [][GenerateRecoveryReport => UNCHANGED <<customers, active_playbooks>>]_vars

\* a report was generated over a registry holding a Completed and an Active
\* playbook and a scored customer
C20_Witness ==
    /\ outcome = Outcome("generate_recovery_report", "none")
    /\ \E id \in DOMAIN active_playbooks : active_playbooks[id].status = "completed"
    /\ \E id \in DOMAIN active_playbooks : active_playbooks[id].status = "active"
    /\ \E c \in Registered : ~IsNone(customers[c].current_health)

\* the customers of a report's scope that have at least two history entries
TwiceScored(scope) == {c \in scope : Len(customers[c].health_history) >= 2}

Improvement(c) ==
    calculate_composite_score(Val(customers[c].current_health))
      - calculate_composite_score(customers[c].health_history[1])

\* C21: the report's average_health_improvement is the mean of (current
\* composite - first recorded composite) over all customers in scope that have
\* at least 2 health_history entries, whatever their flags, and 0 when there
\* are none.
C21_AverageImprovement ==
    \A customer_id \in ReportArguments :
        LET r == generate_recovery_report(customers, active_playbooks, customer_id)
            scope == IF customer_id = None THEN Registered
                     ELSE {Val(customer_id)} \cap Registered
            twice == TwiceScored(scope)
            mean == IF twice = {} THEN 0
                    ELSE SumOver([c \in twice |-> Improvement(c)], twice) \div Cardinality(twice)
        IN  Val(r.ret).recovery_metrics.average_health_improvement = Round2(mean)

\* the registry after the plain completion, in template order, of the actions
\* i, i+1, ... of a playbook
RECURSIVE CompleteFrom(_, _, _, _)
CompleteFrom(cs, pbs, playbook_id, i) ==
    IF i > Len(pbs[playbook_id].actions) THEN pbs
    ELSE CompleteFrom(cs,
                      update_playbook_action(cs, pbs, playbook_id,
                                             pbs[playbook_id].actions[i].action_id,
                                             PlainCompletion).active_playbooks,
                      playbook_id, i + 1)

\* the registry as it is, and as it is after one of its playbooks was worked through
Finished ==
    {active_playbooks}
      \cup {CompleteFrom(customers, active_playbooks, id, 1) : id \in DOMAIN active_playbooks}

CompletedOf(pbs, t) ==
    {id \in DOMAIN pbs : pbs[id].playbook_type = t /\ pbs[id].status = "completed"}

Improved(pbs, id) ==
    /\ ~IsNone(pbs[id].current_health_score)
    /\ ~IsNone(pbs[id].baseline_health_score)
    /\ Val(pbs[id].current_health_score) > Val(pbs[id].baseline_health_score)

\* C22: for every playbook type with a registered playbook the reported
\* success_rate is successful / completed, completed counting the type's
\* Completed playbooks and successful those of them whose current_health_score
\* is above their baseline_health_score (a baseline of 0 included); it is 0
\* when no playbook of the type is Completed.
C22_SuccessRate ==
    \A pbs \in Finished :
        LET effectiveness == _calculate_playbook_effectiveness(pbs)
        IN  \A t \in PlaybookType :
                (\E id \in DOMAIN pbs : pbs[id].playbook_type = t)
                    => /\ t \in DOMAIN effectiveness
                       /\ effectiveness[t].success_rate =
                            IF CompletedOf(pbs, t) = {} THEN 0
                            ELSE (Cardinality({id \in CompletedOf(pbs, t) : Improved(pbs, id)}) * Scale)
                                     \div Cardinality(CompletedOf(pbs, t))

\* C27: the call of update_playbook_action that brings a playbook to 100%
\* makes it Completed, sets current_health_score to the customer's current
\* composite score and, whenever the playbook has a baseline (0 included),
\* records the improvement current - baseline in outcome_summary.
C27_CompletionCapturesOutcome ==
    \A id \in DOMAIN active_playbooks :
        LET playbook == CompleteFrom(customers, active_playbooks, id, 1)[id]
            customer == customers[playbook.customer_id]
            current == calculate_composite_score(Val(customer.current_health))
        IN  (playbook.customer_id \in Registered /\ ~IsNone(customer.current_health))
                => /\ playbook.completion_percentage = 100 * Scale
                   /\ playbook.status = "completed"
                   /\ playbook.current_health_score = Some(current)
                   /\ ~IsNone(playbook.baseline_health_score)
                        => playbook.outcome_summary
                             = Some(Format1f(current - Val(playbook.baseline_health_score)))

NotifiedTypes == {"post_incident_recovery", "engagement_revival"}

\* C23: a failing assignment notification does not fail the scoring update:
\* whichever notifications fail, update_customer_health returns the new metrics
\* and leaves the customer records and the registry as the call without a
\* failure does (metrics recorded, playbook Active, the remaining rules
\* evaluated).
C23_NotificationFailureTolerated ==
    \A c \in Registered : \A b \in GoodBags :
        LET good == update_customer_health(customers, active_playbooks, c, b, today)
        IN  \A failing \in SUBSET NotifiedTypes :
                LET r == update_customer_health_notified(customers, active_playbooks,
                                                         c, b, today, failing)
                IN  /\ r.error = "none"
                    /\ r.ret = good.ret
                    /\ r.customers = good.customers
                    /\ r.active_playbooks = good.active_playbooks

\* the playbooks a call registered: the entries of the registry after it that
\* are not the entries before it
RegisteredBy(r) ==
    {id \in DOMAIN r.active_playbooks :
        id \notin DOMAIN active_playbooks \/ r.active_playbooks[id] # active_playbooks[id]}

\* C26: every playbook registered by a trigger has baseline_health_score equal
\* to the composite score of the new metrics of the update that triggered it;
\* no playbook in the registry is without a baseline.
C26_BaselineIsNewComposite ==
    /\ \A id \in DOMAIN active_playbooks : ~IsNone(active_playbooks[id].baseline_health_score)
    /\ \A c \in Registered : \A b \in GoodBags :
         LET r == update_customer_health(customers, active_playbooks, c, b, today)
         IN  \A id \in RegisteredBy(r) :
                 r.active_playbooks[id].baseline_health_score
                   = Some(calculate_composite_score(Val(r.ret)))

\* an engagement-revival playbook registered by a customer's second update,
\* whose metrics differ from the first ones, carries the second composite
C26_Witness ==
    \E id \in DOMAIN active_playbooks :
        LET playbook == active_playbooks[id]
            c == playbook.customer_id
        IN  /\ playbook.playbook_type = "engagement_revival"
            /\ c \in Registered
            /\ Len(customers[c].health_history) = 2
            /\ customers[c].health_history[1].engagement_score >= 60 * Scale
            /\ calculate_composite_score(customers[c].health_history[1])
                 # calculate_composite_score(customers[c].health_history[2])
            /\ playbook.baseline_health_score
                 = Some(calculate_composite_score(customers[c].health_history[2]))

OutcomeOnlyWhenCompleted(pbs) ==
    \A id \in DOMAIN pbs :
        pbs[id].status # "completed"
            => /\ IsNone(pbs[id].current_health_score)
               /\ IsNone(pbs[id].outcome_summary)

\* C28: in every reachable state, and in the state after any further call, a
\* playbook whose status is not Completed has no current_health_score and an
\* empty outcome_summary.
C28_OutcomeOnlyWhenCompleted ==
    /\ OutcomeOnlyWhenCompleted(active_playbooks)
    /\ \A r \in ActionResults : OutcomeOnlyWhenCompleted(r.active_playbooks)
    /\ \A c \in Registered : \A b \in GoodBags :
         OutcomeOnlyWhenCompleted(
             update_customer_health(customers, active_playbooks, c, b, today).active_playbooks)

\* a Completed playbook holding its outcome next to an Active one that holds
\* none
C28_Witness ==
    /\ \E id \in DOMAIN active_playbooks :
         /\ active_playbooks[id].status = "completed"
         /\ ~IsNone(active_playbooks[id].current_health_score)
         /\ ~IsNone(active_playbooks[id].outcome_summary)
    /\ \E id \in DOMAIN active_playbooks :
         /\ active_playbooks[id].status = "active"
         /\ IsNone(active_playbooks[id].current_health_score)

\* C29: dependencies and order are not enforced: for every action of every
\* registered playbook, update_playbook_action succeeds with every target
\* status and writes it, whatever the action's status and the other actions'.
C29_OrderNotEnforced ==
    \A id \in DOMAIN active_playbooks :
        \A i \in 1 .. Len(active_playbooks[id].actions) :
            \A input \in UpdateInputs :
                LET r == update_playbook_action(customers, active_playbooks, id,
                                                active_playbooks[id].actions[i].action_id,
                                                input)
                IN  /\ r.error = "none"
                    /\ r.active_playbooks[id].actions[i].status = input.status

\* an action was marked Completed while the action before it in the template
\* is still Pending
C29_Witness ==
    /\ outcome = Outcome("update_playbook_action", "none")
    /\ \E id \in DOMAIN active_playbooks :
         \E i \in 2 .. Len(active_playbooks[id].actions) :
             /\ active_playbooks[id].actions[i].status = "completed"
             /\ active_playbooks[id].actions[i - 1].status = "pending"

\* a successful update_playbook_action(playbook_id, action_id, .) with result r
\* wrote only the action and the derived fields of its playbook
ActionFrame(r, playbook_id, action_id) ==
    LET before == active_playbooks[playbook_id]
        after == r.active_playbooks[playbook_id]
        i == ActionIndex(before, action_id)
    IN  /\ r.customers = customers
        /\ DOMAIN r.active_playbooks = DOMAIN active_playbooks
        /\ \A id \in DOMAIN active_playbooks \ {playbook_id} :
               r.active_playbooks[id] = active_playbooks[id]
        /\ Len(after.actions) = Len(before.actions)
        /\ \A j \in (1 .. Len(before.actions)) \ {i} : after.actions[j] = before.actions[j]
        /\ after.actions[i].action_id = action_id
        /\ [after EXCEPT !.actions = before.actions,
                         !.completion_percentage = before.completion_percentage,
                         !.status = before.status,
                         !.current_health_score = before.current_health_score,
                         !.outcome_summary = before.outcome_summary] = before

\* update_customer_health with result r left every playbook that existed with
\* its action statuses, completion_percentage and status
PlaybooksKept(r) ==
    \A id \in DOMAIN active_playbooks :
        /\ id \in DOMAIN r.active_playbooks
        /\ r.active_playbooks[id].status = active_playbooks[id].status
        /\ r.active_playbooks[id].completion_percentage
             = active_playbooks[id].completion_percentage
        /\ \A j \in 1 .. Len(active_playbooks[id].actions) :
               r.active_playbooks[id].actions[j].status
                 = active_playbooks[id].actions[j].status

\* C30: a successful update_playbook_action changes only the targeted action
\* and the derived fields of its playbook, leaving all customers, all other
\* playbooks and all other actions unchanged; and update_customer_health never
\* changes the action statuses, completion_percentage or status of a playbook
\* that already exists.
C30_OwnedState ==
    /\ \A x \in ActionCalls :
         LET r == update_playbook_action(customers, active_playbooks, x[1], x[2], x[3])
         IN  r.error = "none" => ActionFrame(r, x[1], x[2])
    /\ \A c \in Registered : \A b \in GoodBags :
         PlaybooksKept(update_customer_health(customers, active_playbooks, c, b, today))

AllDone == \A t \in Threads : calls.thread[t].pc = "done"

\* the result of the two calls run one after the other from where the callers
\* started
Sequential(first, second) ==
    LET a == calls.thread[first]
        b == calls.thread[second]
        r == update_customer_health(calls.started_from.customers,
                                    calls.started_from.active_playbooks,
                                    a.customer_id, a.customer_data, today)
    IN  update_customer_health(r.customers, r.active_playbooks,
                               b.customer_id, b.customer_data, today)

\* C24: every interleaving of the steps of two update_customer_health calls for
\* two different registered customers ends in the customer records and the
\* playbook registry of the two calls run one after the other.
C24_DistinctCustomersIndependent ==
    (AllDone /\ calls.thread[1].customer_id # calls.thread[2].customer_id)
        => \E order \in {<<1, 2>>, <<2, 1>>} :
               /\ customers = Sequential(order[1], order[2]).customers
               /\ active_playbooks = Sequential(order[1], order[2]).active_playbooks

\* C25: when two trigger evaluations for one customer interleave between the
\* _has_active_playbook check and the registry insert, at most one Active
\* playbook per (customer_id, playbook_type) results and no playbook that was
\* created and announced is replaced by the other call's.
C25_InsertIfAbsent ==
    (AllDone /\ calls.thread[1].customer_id = calls.thread[2].customer_id)
        => /\ AtMostOneActive(active_playbooks)
           /\ calls.thread[1].created \cap calls.thread[2].created = {}

CompletedIds == {id \in DOMAIN active_playbooks : active_playbooks[id].status = "completed"}

\* the outcome of playbook id is in pbs what it is in the registry
OutcomeKept(pbs, id) ==
    /\ id \in DOMAIN pbs
    /\ pbs[id].status = active_playbooks[id].status
    /\ pbs[id].current_health_score = active_playbooks[id].current_health_score
    /\ pbs[id].outcome_summary = active_playbooks[id].outcome_summary

\* C31: completion is final: once a playbook is Completed, no later
\* update_customer_health or update_playbook_action call, nor an update
\* followed by the re-submission of Completed for one of its actions, changes
\* its status, current_health_score or outcome_summary.
C31_CompletionIsFinal ==
    \A id \in CompletedIds :
        /\ \A a \in ActionIds : \A input \in UpdateInputs :
               OutcomeKept(update_playbook_action(customers, active_playbooks,
                                                  id, a, input).active_playbooks, id)
        /\ \A c \in Registered : \A b \in GoodBags :
               LET r == update_customer_health(customers, active_playbooks, c, b, today)
               IN  /\ OutcomeKept(r.active_playbooks, id)
                   /\ \A a \in ActionIds :
                          OutcomeKept(update_playbook_action(r.customers, r.active_playbooks,
                                                             id, a, PlainCompletion).active_playbooks,
                                      id)

\* C32: the registry only grows: no update_playbook_action removes an entry,
\* and every update_customer_health leaves each existing entry in place as the
\* playbook it was (a Completed playbook stays recorded when its kind is
\* triggered again for its customer).
C32_RegistryOnlyGrows ==
    /\ \A r \in ActionResults : DOMAIN active_playbooks \subseteq DOMAIN r.active_playbooks
    /\ \A c \in Registered : \A b \in GoodBags : \A d \in {today, today + 1} :
         LET r == update_customer_health(customers, active_playbooks, c, b, d)
         IN  \A id \in DOMAIN active_playbooks :
                 /\ id \in DOMAIN r.active_playbooks
                 /\ r.active_playbooks[id] = active_playbooks[id]

\* the rule predicate of an implemented kind, for a customer and new metrics
KindPredicate(customer, new_health, playbook_type) ==
    IF playbook_type = "post_incident_recovery"
    THEN customer.is_post_incident /\ customer.trust_rebuilding_required
    ELSE new_health.engagement_score < 60 * Scale

Fresh(playbook) ==
    /\ playbook.status = "active"
    /\ playbook.completion_percentage = 0
    /\ \A j \in 1 .. Len(playbook.actions) : playbook.actions[j].status = "pending"

\* C33: completion releases the guard: when a customer's playbook of an
\* implemented kind is Completed (and no other of the kind is Active), the next
\* update_customer_health in which the kind's rule predicate holds registers a
\* new Active playbook of the kind, at 0% and with all actions Pending.
C33_CompletionReleasesGuard ==
    \A id \in CompletedIds :
        LET c == active_playbooks[id].customer_id
            kind == active_playbooks[id].playbook_type
        IN  (c \in Registered /\ kind \in Implemented /\ ActiveOf(active_playbooks, c, kind) = {})
              => \A b \in GoodBags : \A d \in {today, today + 1} :
                   LET r == update_customer_health(customers, active_playbooks, c, b, d)
                   IN  KindPredicate(customers[c], Val(r.ret), kind)
                         => \E new \in ActiveOf(r.active_playbooks, c, kind) :
                              /\ ActiveOf(r.active_playbooks, c, kind) = {new}
                              /\ new[3] = d
                              /\ Fresh(r.active_playbooks[new])
                              /\ r.active_playbooks[new].baseline_health_score
                                   = Some(calculate_composite_score(Val(r.ret)))

\* a Completed playbook and, registered by the update of the day after, a
\* fresh Active playbook of the same kind for the same customer
C33_Witness ==
    /\ outcome = Outcome("update_customer_health", "none")
    /\ \E id \in CompletedIds : \E new \in DOMAIN active_playbooks :
         /\ active_playbooks[new].customer_id = active_playbooks[id].customer_id
         /\ active_playbooks[new].playbook_type = active_playbooks[id].playbook_type
         /\ new[3] > id[3]
         /\ Fresh(active_playbooks[new])

SkippedIn(playbook) ==
    {j \in 1 .. Len(playbook.actions) : playbook.actions[j].status = "skipped"}

HeldOpen(playbook) ==
    /\ playbook.status = "active"
    /\ playbook.completion_percentage < 100 * Scale

\* C34: a Skipped action never counts towards completion: an Active playbook
\* with a Skipped action is below 100%, stays Active and below 100% after any
\* write that leaves an action Skipped, and no update_customer_health registers
\* another playbook of its kind for its customer meanwhile.
C34_SkippedNeverCounts ==
    \A id \in DOMAIN active_playbooks :
        LET playbook == active_playbooks[id]
            c == playbook.customer_id
        IN  (playbook.status = "active" /\ SkippedIn(playbook) # {})
              => /\ HeldOpen(playbook)
                 /\ \A j \in 1 .. Len(playbook.actions) : \A input \in UpdateInputs :
                      LET after == update_playbook_action(customers, active_playbooks, id,
                                                          playbook.actions[j].action_id,
                                                          input).active_playbooks[id]
                      IN  SkippedIn(after) # {} => HeldOpen(after)
                 /\ \A b \in GoodBags : \A d \in {today, today + 1} :
                      LET r == update_customer_health(customers, active_playbooks, c, b, d)
                      IN  c \in Registered
                            => ActiveOf(r.active_playbooks, c, playbook.playbook_type) = {id}

\* every action of an Active playbook but a Skipped one is Completed, and the
\* customer's second update, with engagement below 60 again, registered no
\* second engagement-revival playbook
C34_Witness ==
    /\ outcome = Outcome("update_customer_health", "none")
    /\ \E id \in DOMAIN active_playbooks :
         LET playbook == active_playbooks[id]
             c == playbook.customer_id
         IN  /\ playbook.playbook_type = "engagement_revival"
             /\ playbook.status = "active"
             /\ Cardinality(SkippedIn(playbook)) = 1
             /\ CompletedActions(playbook) = Len(playbook.actions) - 1
             /\ Len(customers[c].health_history) = 2
             /\ customers[c].health_history[2].engagement_score < 60 * Scale
             /\ \A other \in DOMAIN active_playbooks :
                    active_playbooks[other].playbook_type = "engagement_revival" => other = id

\* a customer of every combination of the two flags
FlagProfiles ==
    {[customer_id |-> "CUST-002", segment |-> "business",
      is_post_incident |-> post, trust_rebuilding_required |-> trust] :
        post \in BOOLEAN, trust \in BOOLEAN}

\* C35: update_customer_health creates a post-incident-recovery playbook only
\* for a customer whose is_post_incident and trust_rebuilding_required are both
\* true at that update; with either flag false none is created, whatever the
\* tier of the new metrics.
C35_PostIncidentOnlyByFlags ==
    /\ \A c \in Registered : \A b \in GoodBags :
         LET r == update_customer_health(customers, active_playbooks, c, b, today)
         IN  CreatedPIR(active_playbooks, r.active_playbooks, c) => c \in Flagged(customers)
    /\ \A profile \in FlagProfiles : \A b \in GoodBags :
         LET a == add_customer(customers, active_playbooks, profile)
             r == update_customer_health(a.customers, a.active_playbooks,
                                         profile.customer_id, b, today)
         IN  CreatedPIR(a.active_playbooks, r.active_playbooks, profile.customer_id)
               => profile.is_post_incident /\ profile.trust_rebuilding_required

\* a customer with trust_rebuilding_required false was scored Critical or
\* RedAlert and has no post-incident-recovery playbook
C35_Witness ==
    /\ outcome = Outcome("update_customer_health", "none")
    /\ \E c \in Registered \ Flagged(customers) :
         /\ ~IsNone(customers[c].current_health)
         /\ LowTier(Val(customers[c].current_health))
         /\ \A id \in DOMAIN active_playbooks :
                active_playbooks[id].customer_id = c
                  => active_playbooks[id].playbook_type # "post_incident_recovery"

Escalated(cs) == {c \in DOMAIN cs : cs[c].executive_escalation_required}

\* C36: executive_escalation_required is monotone: a customer whose flag is
\* set has it set after any update_customer_health (of any customer, with or
\* without a drop), any update_playbook_action (completions included) and any
\* generate_recovery_report.
C36_EscalationMonotone ==
    Escalated(customers) # {}
      => /\ \A c \in CustomerIds : \A b \in SignalBags :
              Escalated(customers) \subseteq
                  Escalated(update_customer_health(customers, active_playbooks,
                                                   c, b, today).customers)
         /\ \A r \in ActionResults : Escalated(customers) \subseteq Escalated(r.customers)
         /\ \A customer_id \in ReportArguments :
              Escalated(customers) \subseteq
                  Escalated(generate_recovery_report(customers, active_playbooks,
                                                     customer_id).customers)

\* a customer was escalated by a drop and an action was updated afterwards
C36_Witness ==
    /\ outcome = Outcome("update_playbook_action", "none")
    /\ \E c \in Escalated(customers) :
         /\ Len(customers[c].health_history) = 2
         /\ calculate_composite_score(customers[c].health_history[2])
              < calculate_composite_score(customers[c].health_history[1]) - 15 * Scale

\* the registry entries of one customer
PlaybooksOf(c) ==
    [id \in {i \in DOMAIN active_playbooks : active_playbooks[i].customer_id = c}
        |-> active_playbooks[id]]

\* C37: a report asked for a registered customer_id is computed from that
\* customer's data only: total_customers is 1, active_playbooks counts that
\* customer's Active playbooks and playbook_effectiveness covers that
\* customer's playbooks.
C37_ReportScopedToCustomer ==
    \A c \in Registered :
        LET report == Val(generate_recovery_report(customers, active_playbooks, Some(c)).ret)
            own == PlaybooksOf(c)
        IN  /\ report.total_customers = 1
            /\ report.active_playbooks
                 = Cardinality({id \in DOMAIN own : own[id].status = "active"})
            /\ report.playbook_effectiveness = _calculate_playbook_effectiveness(own)

\* C40: after any sequence of update_playbook_action calls an action has a
\* completion_date if and only if its status is Completed.
C40_CompletionDateIffCompleted ==
    \A id \in DOMAIN active_playbooks :
        \A j \in 1 .. Len(active_playbooks[id].actions) :
            ~IsNone(active_playbooks[id].actions[j].completion_date)
                <=> active_playbooks[id].actions[j].status = "completed"

LevelOf(e, c) == e.advocacy_profiles[c].current_level

\* C38: a customer's advocacy level never decreases: after each of
\* enroll_in_advocacy_program, record_advocacy_activity, achieve_milestone and
\* promote_advocacy_level the level of current_level is at least what it was
\* before the call.
C38_AdvocacyLevelMonotone ==
    \A c \in DOMAIN value_engine.advocacy_profiles :
        LET level == LevelOf(value_engine, c)
        IN  /\ LevelOf(enroll_in_advocacy_program(value_engine, c).engine, c) >= level
            /\ \A activity \in SUBSET ActivityKeywords :
                 LevelOf(record_advocacy_activity(value_engine, c, activity).engine, c) >= level
            /\ \A i \in 1 .. Len(MilestonesOf(value_engine, c)) :
                 LevelOf(achieve_milestone(value_engine, c,
                                           MilestonesOf(value_engine, c)[i].milestone_id,
                                           NoMetrics, today).engine, c) >= level
            /\ \A new_level \in AdvocacyLevel :
                 promote_advocacy_level(value_engine.advocacy_profiles[c],
                                        new_level).current_level >= level

\* the thresholds C39 names, in hundredths of a percent
NamedThreshold(milestone_type) ==
    IF milestone_type = "QUICK_WIN" THEN 10 * 100
    ELSE IF milestone_type = "GROWTH_MILESTONE" THEN 25 * 100
    ELSE 50 * 100

AchievedIn(e) ==
    {<<c, i>> \in {<<c, i>> : c \in DOMAIN e.customer_milestones, i \in 1 .. MaxMilestones + 1} :
        /\ i <= Len(e.customer_milestones[c])
        /\ e.customer_milestones[c][i].status = "achieved"}

\* the engines after one more engine operation
ValueResults ==
    {add_roi_metric(value_engine, c, metric, today).engine :
        c \in ValueCustomers, metric \in MetricInputs}
      \cup {update_roi_metric(value_engine, c, "ROI-001", 150).engine : c \in ValueCustomers}
      \cup {create_success_milestone(value_engine, c, t).engine :
              c \in ValueCustomers, t \in MilestoneType}
      \cup UNION {{achieve_milestone(value_engine, c,
                                      value_engine.customer_milestones[c][i].milestone_id,
                                      NoMetrics, today).engine :
                        i \in 1 .. Len(value_engine.customer_milestones[c])} :
                    c \in DOMAIN value_engine.customer_milestones}
      \cup {enroll_in_advocacy_program(value_engine, c).engine : c \in ValueCustomers}
      \cup {record_advocacy_activity(value_engine, c, a).engine :
              c \in ValueCustomers, a \in ActivityInputs}

\* C39: add_roi_metric changes a milestone only by achieving it, and only a
\* milestone of that customer that is IN_PROGRESS and whose type's threshold
\* (10, 25, 50 percent) the metric's improvement percentage reaches; and an
\* ACHIEVED milestone is ACHIEVED after every engine operation.
C39_AutoAchieveOnlyInProgress ==
    /\ \A c \in ValueCustomers : \A metric \in MetricInputs :
         LET after == add_roi_metric(value_engine, c, metric, today).engine
         IN  /\ DOMAIN after.customer_milestones = DOMAIN value_engine.customer_milestones
             /\ \A other \in DOMAIN value_engine.customer_milestones :
                  /\ Len(after.customer_milestones[other])
                       = Len(value_engine.customer_milestones[other])
                  /\ \A i \in 1 .. Len(value_engine.customer_milestones[other]) :
                       LET was == value_engine.customer_milestones[other][i]
                           is == after.customer_milestones[other][i]
                       IN  is # was
                             => /\ other = c
                                /\ was.status = "in_progress"
                                /\ calculate_improvement_percentage(metric)
                                     >= NamedThreshold(was.milestone_type)
                                /\ is.status = "achieved"
    /\ \A e \in ValueResults : AchievedIn(value_engine) \subseteq AchievedIn(e)

\* add_roi_metric achieved one of a customer's milestones by itself and left
\* another one of that customer, in progress too, as it was
C39_Witness ==
    /\ outcome = Outcome("add_roi_metric", "none")
    /\ \E c \in DOMAIN value_engine.customer_milestones :
         \E i, j \in 1 .. Len(value_engine.customer_milestones[c]) :
             /\ value_engine.customer_milestones[c][i].status = "achieved"
             /\ "auto_completed" \in DOMAIN value_engine.customer_milestones[c][i].achievement_metrics
             /\ value_engine.customer_milestones[c][j].status = "in_progress"

====
